---------------------------- MODULE Spec2Model ----------------------------
(***************************************************************************)
(* Model of hvsclib.  The STIL functions (src/src/lib/stil.c): opening     *)
(* STIL.txt on the entry of a PSID file, reading the entry, parsing it and *)
(* closing the handle.  The song length lookup (src/src/lib/sldb.c) and    *)
(* the PSID header check (src/src/lib/psid.c).                             *)
(*                                                                         *)
(* A line of text is a sequence of one-character strings.  The parse is    *)
(* modelled one main-loop iteration per step.  C arrays are 0-based, so    *)
(* lineno is kept 0-based as in the source and line lineno is              *)
(* entry_buffer[lineno+1].  Spec, SpecText, SpecTitle, SpecMarker,         *)
(* SpecLoop and SpecFields start with the entry buffer filled and differ   *)
(* in the lines they draw; SpecOpen starts before hvsc_stil_open(),        *)
(* SpecClose adds hvsc_stil_close() and SpecReclose a further call of it;  *)
(* SpecSldb and SpecPsid call hvsc_sldb_get_lengths() and                  *)
(* hvsc_psid_open().                                                       *)
(***************************************************************************)
EXTENDS Integers, Sequences, FiniteSets, TLC

VARIABLES
    entry_buffer,   \* handle->entry_buffer[0 .. entry_bufused-1]
    pc,             \* position of the caller: start, loop, done, failed
    tune,           \* state.tune
    lineno,         \* state.lineno
    block,          \* *state.block, or NULL
    blocks,         \* handle->blocks[0 .. blocks_used-1]
    sid_comment,    \* handle->sid_comment
    tune_entry,     \* result of the last hvsc_stil_get_tune_entry call
    visits,         \* history: which code consumed which buffer line, in order
    oob,            \* history: a read beyond the end of a line has happened
    scan,           \* history: where the last search for "(" on a TITLE: line
                    \* stopped: "none", in the "line", or "beyond" its end
    archive,        \* the lines of the file STIL.txt
    stil,           \* handle->stil: the text file reader
    psid_path,      \* handle->psid_path
    entry_read,     \* what hvsc_stil_read_entry() returned, "none" before it
    hvsc_errno,     \* the library's error code
    held,           \* history: what the handle has acquired and not released
    fault,          \* history: the kinds of failure the environment produced
    released,       \* history: what hvsc_stil_close() has released, in order
    mem,            \* the addresses of the block and field objects
    sldb_file,      \* the lines of the song length database
    sldb_call,      \* the last call of hvsc_sldb_get_lengths() and its result
    psid_data,      \* the first bytes of the PSID file
    psid_call       \* the last call of hvsc_psid_open() and its result

\* the part of the state that belongs to hvsc_stil_open()/hvsc_stil_read_entry()
file_vars == <<archive, stil, psid_path, entry_read, held, released>>

\* the part of the state that belongs to sldb.c and psid.c
tool_vars == <<sldb_file, sldb_call, psid_data, psid_call>>

\* the part of the state that belongs to stil.c
stil_vars == <<entry_buffer, pc, tune, lineno, block, blocks, sid_comment,
               tune_entry, visits, oob, archive, stil, psid_path, entry_read,
               hvsc_errno, held, fault, mem, scan, released>>

vars == <<stil_vars, tool_vars>>

---------------------------------------------------------------------------
(* Bounds of the model                                                     *)

MaxLines == 4

MaxQuery == 2

\* the longest entry of the specification SpecText
MaxText == 3

\* the longest file STIL.txt of the specification SpecOpen
MaxArchive == 4

\* the longest entry of the specification SpecLoop
MaxLoop == 3

\* the most field lines of an entry of the specification SpecFields
MaxFields == 33

\* the longest song length database of the specification SpecSldb
MaxSldb == 3

\* the longest entry of the specification SpecTitle
MaxTitle == 3

\* the longest entry of the specification SpecMarker
MaxMarker == 3

---------------------------------------------------------------------------
(* Program constants                                                       *)

HVSC_FIELD_INVALID == -1
HVSC_FIELD_ARTIST == 0
HVSC_FIELD_AUTHOR == 1
HVSC_FIELD_BUG == 2
HVSC_FIELD_COMMENT == 3
HVSC_FIELD_NAME == 4
HVSC_FIELD_TITLE == 5

\* the initial size of the fields array of a block
HVSC_STIL_BLOCK_FIELDS_INIT == 32

\* the number of bytes of an MD5 digest
HVSC_DIGEST_SIZE == 16

HVSC_ERR_OK == 0
HVSC_ERR_OOM == 1
HVSC_ERR_IO == 2
HVSC_ERR_NOT_FOUND == 6

\* field_identifiers[], indexed by field type + 1 (TLA+ sequences are 1-based)
field_identifiers ==
    << <<" ", "A", "R", "T", "I", "S", "T", ":">>,
       <<" ", "A", "U", "T", "H", "O", "R", ":">>,
       <<" ", " ", " ", " ", "B", "U", "G", ":">>,
       <<"C", "O", "M", "M", "E", "N", "T", ":">>,
       <<" ", " ", " ", "N", "A", "M", "E", ":">>,
       <<" ", " ", "T", "I", "T", "L", "E", ":">> >>

\* the null pointer, for a block pointer
NULL == [tune |-> -1, fields |-> <<>>]

\* handle->sid_comment == NULL
NoComment == [null |-> TRUE, text |-> <<>>]

\* a timestamp object initialised with zeroes
NoTimestamp_Zero == [from |-> 0, to |-> 0]

\* a timestamp object as the main loop initialises it: { -1, -1 }
NoTimestamp == [from |-> -1, to |-> -1]

---------------------------------------------------------------------------
(* C strings                                                               *)

\* s + n: the string starting n characters into s (n <= strlen(s))
Skip(s, n) == SubSeq(s, n + 1, Len(s))

\* *s: the character at s, "\\0" at the terminator
Deref(s) == IF s = <<>> THEN "\\0" ELSE Head(s)

\* isspace() in the C locale
isspace(c) == c \in {" ", "\t", "\n", "\f", "\r"}

isdigit(c) == c \in {"0", "1", "2", "3", "4", "5", "6", "7", "8", "9"}

DigitValue(c) ==
    CASE c = "0" -> 0 [] c = "1" -> 1 [] c = "2" -> 2 [] c = "3" -> 3
      [] c = "4" -> 4 [] c = "5" -> 5 [] c = "6" -> 6 [] c = "7" -> 7
      [] c = "8" -> 8 [] c = "9" -> 9

\* number of leading characters of s that satisfy isspace
RECURSIVE SpaceRun(_)
SpaceRun(s) == IF s # <<>> /\ isspace(Head(s)) THEN 1 + SpaceRun(Tail(s)) ELSE 0

\* number of leading decimal digits of s
RECURSIVE DigitRun(_)
DigitRun(s) == IF s # <<>> /\ isdigit(Head(s)) THEN 1 + DigitRun(Tail(s)) ELSE 0

\* value of a string of decimal digits
RECURSIVE Decimal(_)
Decimal(d) ==
    IF d = <<>> THEN 0
    ELSE 10 * Decimal(SubSeq(d, 1, Len(d) - 1)) + DigitValue(d[Len(d)])

\* strtol(s, &endptr, 10): white space, an optional sign, decimal digits;
\* without digits the result is 0 and endptr is s itself
strtol(s) ==
    LET a == Skip(s, SpaceRun(s))
        signed == a # <<>> /\ Head(a) \in {"-", "+"}
        b == IF signed THEN Tail(a) ELSE a
        n == DigitRun(b)
        v == Decimal(SubSeq(b, 1, n))
    IN  IF n = 0 THEN [result |-> 0, endptr |-> s]
        ELSE [result |-> IF signed /\ Head(a) = "-" THEN 0 - v ELSE v,
              endptr |-> Skip(b, n)]

\* strncmp(s, t, n) == 0, for a t of n characters
strncmp_eq(s, t, n) == Len(s) >= n /\ SubSeq(s, 1, n) = t

---------------------------------------------------------------------------
(* Reads beyond the end of a string                                        *)
(*                                                                         *)
(* The parser steps 9 characters into a line without looking at its        *)
(* length.  What a read beyond the terminator returns is not defined; the  *)
(* model lets it return any of a few representative values.                *)

\* text read from beyond the end of a string
GarbageText == { <<>>, <<"?">> }

\* what stil_parse_timestamp() can leave in ts when it is run on such text:
\* nothing, a single time, or a range
GarbageTimestamp ==
    { NoTimestamp, [from |-> 777, to |-> -1], [from |-> 777, to |-> 778] }

---------------------------------------------------------------------------
(* Lexical helpers of stil.c                                               *)

\* stil_get_field_type(): first identifier whose 8 characters start s
stil_get_field_type(s) ==
    IF \E i \in 1..Len(field_identifiers) : strncmp_eq(s, field_identifiers[i], 8)
    THEN (CHOOSE i \in 1..Len(field_identifiers) :
            /\ strncmp_eq(s, field_identifiers[i], 8)
            /\ \A j \in 1..(i - 1) : ~strncmp_eq(s, field_identifiers[j], 8)) - 1
    ELSE HVSC_FIELD_INVALID

\* stil_parse_tune_number(): "(#N)" after optional white space, else -1
stil_parse_tune_number(s) ==
    LET a == Skip(s, SpaceRun(s))
    IN  IF Deref(a) = "(" /\ Deref(Skip(a, 1)) = "#"
        THEN LET r == strtol(Skip(a, 2))
             IN  IF Deref(r.endptr) = ")" THEN r.result ELSE -1
        ELSE -1

\* hvsc_parse_simple_timestamp(): "H:MM", one or more digits, a colon and
\* exactly two digits, in seconds; -1 when s does not start with that
hvsc_parse_simple_timestamp(s) ==
    LET h == DigitRun(s)
        m == Skip(s, h + 1)
    IN  IF /\ h > 0
           /\ Deref(Skip(s, h)) = ":"
           /\ Len(m) >= 2 /\ isdigit(m[1]) /\ isdigit(m[2])
        THEN [result |-> Decimal(SubSeq(s, 1, h)) * 60 + Decimal(SubSeq(m, 1, 2)),
              endptr |-> Skip(m, 2)]
        ELSE [result |-> -1, endptr |-> s]

\* stil_parse_timestamp(): the value it leaves in *ts, which starts as ts0.
\* Its caller ignores the return value and uses *ts as it is left.
stil_parse_timestamp(s, ts0) ==
    LET first == hvsc_parse_simple_timestamp(s)
    IN  IF first.result < 0 THEN [ok |-> FALSE, ts |-> ts0]
        ELSE IF Deref(first.endptr) # "-"
        THEN [ok |-> TRUE, ts |-> [from |-> first.result, to |-> -1]]
        ELSE LET second == hvsc_parse_simple_timestamp(Skip(first.endptr, 1))
             IN  IF second.result < 0
                 THEN [ok |-> FALSE, ts |-> [ts0 EXCEPT !.from = first.result]]
                 ELSE [ok |-> TRUE,
                       ts |-> [from |-> first.result, to |-> second.result]]

---------------------------------------------------------------------------
(* Fields and blocks                                                       *)

\* stil_field_new(): a field object with its own copy of the text
stil_field_new(type, text, ts_from, ts_to) ==
    [type |-> type, text |-> text,
     timestamp |-> [from |-> ts_from, to |-> ts_to]]

\* stil_field_dup()
stil_field_dup(field) ==
    stil_field_new(field.type, field.text, field.timestamp.from,
                   field.timestamp.to)

\* stil_block_new(): tune 0, no fields
stil_block_new == [tune |-> 0, fields |-> <<>>]

\* stil_block_dup(): same tune, a copy of every field in the same order
stil_block_dup(b) ==
    [tune |-> b.tune,
     fields |-> [i \in 1..Len(b.fields) |-> stil_field_dup(b.fields[i])]]

\* block->fields_max of a block with that many fields: the array starts
\* with max elements and is doubled whenever a field is added to a full one
RECURSIVE Capacity(_, _)
Capacity(max, used) == IF used <= max THEN max ELSE Capacity(2 * max, used)

fields_max(b) == Capacity(HVSC_STIL_BLOCK_FIELDS_INIT, Len(b.fields))

\* realloc() handing out an array without the old elements
realloc_Lose(array, n) == <<>>

\* realloc(array, n elements): the elements that fit are kept in place
realloc(array, n) == IF n >= Len(array) THEN array ELSE SubSeq(array, 1, n)

\* stil_block_add_field(): a full array is doubled, then the field goes to
\* the end of the array
stil_block_add_field(b, field) ==
    LET array == IF fields_max(b) = Len(b.fields)
                 THEN realloc(b.fields, fields_max(b) * 2)
                 ELSE b.fields
    IN  [b EXCEPT !.fields = Append(array, field)]

\* stil_handle_add_block() that adds nothing
stil_handle_add_block_Drop(bs, b) == bs

\* stil_handle_add_block(): a copy of the block goes to the end of the array
stil_handle_add_block(bs, b) == Append(bs, stil_block_dup(b))

---------------------------------------------------------------------------
(* The same objects as the allocator sees them                             *)
(*                                                                         *)
(* mem holds the addresses of the block and field objects: .live is the    *)
(* set of addresses allocated and not freed, .block and .fields are the    *)
(* working block (state.block, 0 for NULL) and its fields[] array, .blocks *)
(* is handle->blocks[].  Addresses are interchangeable, so malloc() is     *)
(* taken to return the lowest address that is not in use: it can hand out  *)
(* a freed address again, never a live one.                                *)

NoMem == [live |-> {}, block |-> 0, fields |-> <<>>, blocks |-> <<>>]

malloc(live) ==
    CHOOSE a \in 1..(Cardinality(live) + 1) :
        a \notin live /\ \A b \in 1..(a - 1) : b \in live

\* n allocations in a row, none freed in between: the n lowest addresses
\* that are not in use, in rising order
mallocs(live, n) ==
    [i \in 1..n |->
        CHOOSE a \in 1..(Cardinality(live) + n) :
            a \notin live /\ Cardinality({ b \in 1..a : b \notin live }) = i]

\* stil_block_new(): a new object becomes the working block
stil_block_new_at(m) ==
    LET a == malloc(m.live)
    IN  [m EXCEPT !.live = @ \cup {a}, !.block = a, !.fields = <<>>]

\* stil_block_free() of the working block: the block and its fields are
\* freed, the pointer is left as it is
stil_block_free(m) ==
    [m EXCEPT !.live = @ \ ({m.block} \cup { m.fields[i] : i \in 1..Len(m.fields) })]

\* stil_field_new() and stil_block_add_field(): a new field object goes to
\* the end of the working block's array
stil_block_add_field_at(m) ==
    LET a == malloc(m.live)
    IN  [m EXCEPT !.live = @ \cup {a}, !.fields = Append(@, a)]

\* stil_handle_add_block() storing the working block itself
stil_handle_add_block_at_NoCopy(m) ==
    [m EXCEPT !.blocks = Append(@, [block |-> m.block, fields |-> m.fields])]

\* stil_handle_add_block(): stil_block_dup() allocates the copy, then one
\* field per field of the block; the copy goes to the end of the array
stil_handle_add_block_at(m) ==
    LET a == mallocs(m.live, 1 + Len(m.fields))
    IN  [m EXCEPT !.live = @ \cup { a[i] : i \in 1..Len(a) },
                  !.blocks = Append(@, [block |-> a[1], fields |-> Tail(a)])]

\* stil_handle_add_block() failing.  When stil_block_dup() cannot copy a
\* field it frees the copy with fields_used already set to the full count,
\* so with two or more fields stil_block_free() calls free() on array
\* elements that were never set: nothing happens, or some live object is
\* freed
stil_handle_add_block_failed(m) ==
    {m} \cup IF Len(m.fields) >= 2
             THEN { [m EXCEPT !.live = @ \ {a}] : a \in m.live }
             ELSE {}

\* stil_parser_free(): the working block is freed; state goes out of scope
stil_parser_free(m) == [stil_block_free(m) EXCEPT !.block = 0, !.fields = <<>>]

---------------------------------------------------------------------------
(* hvsc_stil_get_tune_entry(): the fields of the first block whose tune    *)
(* number is the one asked for                                             *)

NoEntry == [tune |-> -1, found |-> FALSE, fields |-> <<>>]

hvsc_stil_get_tune_entry(bs, n) ==
    IF \E i \in 1..Len(bs) : bs[i].tune = n
    THEN LET i == CHOOSE k \in 1..Len(bs) :
                    /\ bs[k].tune = n
                    /\ \A j \in 1..(k - 1) : bs[j].tune # n
         IN  [tune |-> n, found |-> TRUE, fields |-> bs[i].fields]
    ELSE [tune |-> n, found |-> FALSE, fields |-> <<>>]

---------------------------------------------------------------------------
(* stil_parse_comment()                                                    *)

NineSpaces == <<" ", " ", " ", " ", " ", " ", " ", " ", " ">>

\* the test on a line after a COMMENT: line: does it start with 9 spaces
IsContinuation(line) == strncmp_eq(line, NineSpaces, 9)

\* state->lineno when stil_parse_comment() returns: the first line after
\* line i that is no continuation, or entry_bufused
RECURSIVE CommentEnd(_, _)
CommentEnd(buf, i) ==
    IF i + 1 < Len(buf) /\ IsContinuation(buf[i + 2])
    THEN CommentEnd(buf, i + 1)
    ELSE i + 1

\* ContinuationText() copying from the 10th character: no separating space
ContinuationText_NoSpace(line) == Skip(line, 9)

\* what one continuation line adds to the comment: the line from its 9th
\* character on, so that one of the 9 spaces separates it from the text so far
ContinuationText(line) == Skip(line, 8)

\* the comment text: line i from its 10th character on, then the
\* continuation lines i+1 .. last
RECURSIVE CommentText(_, _, _)
CommentText(buf, i, last) ==
    IF last = i THEN Skip(buf[i + 1], 9)
    ELSE CommentText(buf, i, last - 1) \o ContinuationText(buf[last + 1])

stil_parse_comment(buf, i) ==
    [comment |-> CommentText(buf, i, CommentEnd(buf, i) - 1),
     lineno |-> CommentEnd(buf, i)]

---------------------------------------------------------------------------
(* Pieces of the main loop of hvsc_stil_parse_entry()                      *)

\* the current line
Line == entry_buffer[lineno + 1]

InLoop == pc = "loop" /\ lineno < Len(entry_buffer)

\* the text a TITLE: line hands to stil_field_new(): the line is advanced
\* past the identifier only inside the test for a closing parenthesis
TitleText(line) ==
    IF Len(line) > 6 /\ line[Len(line)] = ")" THEN Skip(line, 9) ELSE line

\* where the backward scan for "(" stops when it meets no "(" beyond the
\* end of the line: the index in text (1-based) of the last "(", 0 if none
LastParen(text) ==
    IF \E k \in 1..Len(text) : text[k] = "("
    THEN CHOOSE k \in 1..Len(text) :
            text[k] = "(" /\ \A j \in (k + 1)..Len(text) : text[j] # "("
    ELSE 0

\* the values ts can have after the TITLE: case.  The scan for "(" starts at
\* line + 9 + len - 1, 8 characters beyond the terminator: when one of those
\* is "(" the timestamp is parsed from what follows it there.  Otherwise the
\* scan stops on the last "(" of the text (k), and only a "(" that opens the
\* text (k = 1, t == line) is ignored: without any "(" (k = 0) the scan ends
\* at line - 1 and the text is parsed from its first character.
TitleTimestamp(line) ==
    IF Len(line) > 6 /\ line[Len(line)] = ")"
    THEN LET text == Skip(line, 9)
             k == LastParen(text)
         IN  GarbageTimestamp \cup
             { IF k = 1 THEN NoTimestamp
               ELSE stil_parse_timestamp(Skip(text, k), NoTimestamp).ts }
    ELSE { NoTimestamp }

\* the same with what stil_parse_timestamp() returned (TRUE when it was not
\* called) and where the scan stopped: on text from beyond the end of the line
\* it returns false with nothing set or with from alone set, true with from set
TitleOutcome(line) ==
    IF Len(line) > 6 /\ line[Len(line)] = ")"
    THEN LET text == Skip(line, 9)
             k == LastParen(text)
             r == stil_parse_timestamp(Skip(text, k), NoTimestamp)
         IN  { g \in [ok : BOOLEAN, ts : GarbageTimestamp, scan : {"beyond"}] :
                    /\ g.ok => g.ts.from >= 0
                    /\ ~g.ok => g.ts.to < 0 }
             \cup
             { IF k = 1 THEN [ok |-> TRUE, ts |-> NoTimestamp, scan |-> "line"]
               ELSE [ok |-> r.ok, ts |-> r.ts, scan |-> "line"] }
    ELSE { [ok |-> TRUE, ts |-> NoTimestamp, scan |-> "none"] }

\* AfterInvalidTimestamp() treating the invalid timestamp as a parser error
AfterInvalidTimestamp_Fail == "failed"

\* lines 881-888: where the parse goes when stil_parse_timestamp() returns
\* false: on, as after any other line
AfterInvalidTimestamp == "loop"

\* OtherText() stepping over the identifier only: the space stays in the text
OtherText_KeepSpace(line) == Skip(line, 8)

\* the text any other line hands to stil_field_new(): line + 9
OtherText(line) == Skip(line, 9)

\* StoreField() leaving the tune number alone: the line is dropped and the
\* parser stays without a tune
StoreField_StayAtZero(b, t, field) ==
    IF t > 0
    THEN [block |-> stil_block_add_field(b, field), tune |-> t]
    ELSE [block |-> b, tune |-> t]

\* StoreField() without the test for a tune number: the field is always added
StoreField_AlwaysAdd(b, t, field) ==
    [block |-> [stil_block_add_field(b, field)
                    EXCEPT !.tune = IF t > 0 THEN b.tune ELSE 1],
     tune |-> IF t > 0 THEN t ELSE 1]

\* lines 910-932: with a tune number, the field is added to the block;
\* without one, the line only turns the block into that of tune 1
StoreField(b, t, field) ==
    IF t > 0
    THEN [block |-> stil_block_add_field(b, field), tune |-> t]
    ELSE [block |-> [b EXCEPT !.tune = 1], tune |-> 1]

\* SidComment() never storing the SID-wide comment
SidComment_Never(t, old, comment) == old

\* SidComment() storing every comment as the SID-wide comment
SidComment_Always(t, old, comment) == [null |-> FALSE, text |-> comment]

\* lines 849-855: before any tune the comment is the SID-wide comment
SidComment(t, old, comment) ==
    IF t = 0 THEN [null |-> FALSE, text |-> comment] ELSE old

\* AfterComment() without the step back: the line after the comment is skipped
AfterComment_NoStepBack(n) == n + 1

\* AfterComment() stepping back two lines: the comment line is handled again
AfterComment_StepBackTwice(n) == (n - 2) + 1

\* the line the main loop handles after a comment: stil_parse_comment()
\* stops on it, the loop steps back one line and then forward one
AfterComment(n) == (n - 1) + 1

Visit(i, who) == [line |-> i, by |-> who]

\* the lines stil_parse_comment() consumed as continuation: i+1 .. n-1
RECURSIVE Continuations(_, _)
Continuations(i, n) ==
    IF n <= i + 1 THEN <<>>
    ELSE Append(Continuations(i, n - 1), Visit(n - 1, "comment"))

---------------------------------------------------------------------------
(* Lines an entry can hold                                                 *)

Ident(type) == field_identifiers[type + 1]

EntryLines ==
    { <<"(", "#", "1", ")">>,
      <<"(", "#", "2", ")">>,
      Ident(HVSC_FIELD_ARTIST) \o <<" ", "a">>,
      Ident(HVSC_FIELD_AUTHOR) \o <<" ", "u">>,
      Ident(HVSC_FIELD_NAME) \o <<" ", "n">>,
      Ident(HVSC_FIELD_TITLE) \o <<" ", "t">>,
      Ident(HVSC_FIELD_COMMENT) \o <<" ", "c">>,
      NineSpaces \o <<"d">>,
      Ident(HVSC_FIELD_ARTIST) }

\* all sequences of at most n elements of S
SeqsUpTo(S, n) == UNION { [1..k -> S] : k \in 0..n }

---------------------------------------------------------------------------
(* The state after hvsc_stil_open() and hvsc_stil_read_entry(): the entry  *)
(* buffer holds the lines of the entry, nothing is parsed yet.  The file   *)
(* plays no part from here on and is left out (empty).                     *)

\* no call of hvsc_sldb_get_lengths() or hvsc_psid_open() is made
NoLengths == [called |-> FALSE, num |-> 0, null |-> TRUE, lengths |-> <<>>,
              error |-> "none"]

NoPsid == [called |-> FALSE, result |-> FALSE, error |-> "none"]

InitTools ==
    /\ sldb_file = <<>>
    /\ sldb_call = NoLengths
    /\ psid_data = <<>>
    /\ psid_call = NoPsid

\* the handle after stil_init_handle(), and the program before any call
InitHandle ==
    /\ tune = 0
    /\ lineno = 0
    /\ block = NULL
    /\ blocks = <<>>
    /\ sid_comment = NoComment
    /\ tune_entry = NoEntry
    /\ visits = <<>>
    /\ oob = FALSE
    /\ hvsc_errno = HVSC_ERR_OK
    /\ fault = {}
    /\ mem = NoMem
    /\ scan = "none"
    /\ released = <<>>

Init ==
    /\ entry_buffer \in SeqsUpTo(EntryLines, MaxLines)
    /\ pc = "start"
    /\ archive = <<>>
    /\ stil = [open |-> TRUE, lineno |-> 0]
    /\ psid_path = [null |-> FALSE, text |-> <<"/", "a">>]
    /\ entry_read = "true"
    /\ held = {"entry_buffer", "stil", "psid_path"}
    /\ InitHandle
    /\ InitTools

---------------------------------------------------------------------------
(* hvsc_stil_parse_entry()                                                 *)

\* lines 788-796: stil_parser_init() and stil_handle_init_blocks()
ParseInit ==
    /\ pc = "start"
    /\ tune' = 0
    /\ lineno' = 0
    /\ \/ /\ block' = stil_block_new
          /\ mem' = stil_block_new_at(mem)
          /\ pc' = "loop"
          /\ UNCHANGED <<hvsc_errno, fault>>
       \/ /\ block' = NULL              \* stil_block_new() failed
          /\ pc' = "failed"
          /\ hvsc_errno' = HVSC_ERR_OOM
          /\ fault' = fault \cup {"oom"}
          /\ UNCHANGED mem
       \/ /\ block' = stil_block_new    \* the blocks array was not allocated
          /\ mem' = stil_block_new_at(mem)
          /\ pc' = "failed"
          /\ hvsc_errno' = HVSC_ERR_OOM
          /\ fault' = fault \cup {"oom"}
    /\ blocks' = <<>>
    /\ UNCHANGED <<entry_buffer, sid_comment, tune_entry, visits, oob>>
    /\ UNCHANGED <<file_vars, scan>>
    /\ UNCHANGED tool_vars

\* lines 815-836: the line is a tune number
ParseTuneNumber ==
    /\ InLoop
    /\ stil_parse_tune_number(Line) > 0
    /\ tune' = stil_parse_tune_number(Line)
    /\ \/ /\ tune' > 1
          /\ blocks' = stil_handle_add_block(blocks, block)
          /\ block' = [stil_block_new EXCEPT !.tune = tune']
          /\ mem' = stil_block_new_at(stil_block_free(stil_handle_add_block_at(mem)))
          /\ lineno' = lineno + 1
          /\ visits' = Append(visits, Visit(lineno, "loop"))
          /\ pc' = "loop"
          /\ UNCHANGED <<hvsc_errno, fault>>
       \/ /\ tune' <= 1
          /\ lineno' = lineno + 1
          /\ visits' = Append(visits, Visit(lineno, "loop"))
          /\ UNCHANGED <<blocks, block, pc, mem, hvsc_errno, fault>>
       \/ /\ tune' > 1                  \* stil_handle_add_block() failed
          /\ pc' = "failed"
          /\ hvsc_errno' \in {hvsc_errno, HVSC_ERR_OOM}
          /\ fault' = fault \cup {"oom"}
          /\ mem' \in stil_handle_add_block_failed(mem)
          /\ UNCHANGED <<blocks, block, lineno, visits>>
       \/ /\ tune' > 1                  \* stil_block_new() failed
          /\ blocks' = stil_handle_add_block(blocks, block)
          /\ block' = NULL
          /\ mem' = stil_parser_free(stil_handle_add_block_at(mem))
          /\ pc' = "failed"
          /\ hvsc_errno' = HVSC_ERR_OOM
          /\ fault' = fault \cup {"oom"}
          /\ UNCHANGED <<lineno, visits>>
    /\ UNCHANGED <<entry_buffer, sid_comment, tune_entry, oob>>
    /\ UNCHANGED <<file_vars, scan>>
    /\ UNCHANGED tool_vars

\* lines 910-920 as the allocator sees them: a field object is allocated
\* only with a tune number
StoreFieldAt(m, t) == IF t > 0 THEN stil_block_add_field_at(m) ELSE m

\* lines 844-859 and 906-933: the line is a COMMENT: line
ParseComment ==
    /\ InLoop
    /\ stil_parse_tune_number(Line) <= 0
    /\ stil_get_field_type(Line) = HVSC_FIELD_COMMENT
    /\ \/ \E comment \in IF Len(Line) >= 9
                         THEN { stil_parse_comment(entry_buffer, lineno).comment }
                         ELSE GarbageText :
            LET n == stil_parse_comment(entry_buffer, lineno).lineno
                field == stil_field_new(HVSC_FIELD_COMMENT, comment,
                                        NoTimestamp.from, NoTimestamp.to)
                r == StoreField(block, tune, field)
            IN  /\ sid_comment' = SidComment(tune, sid_comment, comment)
                /\ block' = r.block
                /\ tune' = r.tune
                /\ mem' = StoreFieldAt(mem, tune)
                /\ lineno' = AfterComment(n)
                /\ visits' = Append(visits, Visit(lineno, "loop"))
                                \o Continuations(lineno, n)
                /\ oob' = (oob \/ Len(Line) < 9)
                /\ pc' = "loop"
                /\ UNCHANGED <<hvsc_errno, fault>>
       \/ /\ pc' = "failed"             \* stil_parse_comment() failed
          /\ hvsc_errno' \in {hvsc_errno, HVSC_ERR_OOM}
          /\ fault' = fault \cup {"oom"}
          /\ UNCHANGED <<sid_comment, block, tune, lineno, visits, oob, mem>>
       \/ /\ tune > 0                   \* the field could not be allocated
          /\ pc' = "failed"
          /\ lineno' = stil_parse_comment(entry_buffer, lineno).lineno - 1
          /\ visits' = Append(visits, Visit(lineno, "loop"))
                          \o Continuations(lineno, lineno' + 1)
          /\ oob' = (oob \/ Len(Line) < 9)
          /\ hvsc_errno' = HVSC_ERR_OOM
          /\ fault' = fault \cup {"oom"}
          /\ UNCHANGED <<sid_comment, block, tune, mem>>
    /\ UNCHANGED <<entry_buffer, blocks, tune_entry>>
    /\ UNCHANGED <<file_vars, scan>>
    /\ UNCHANGED tool_vars

\* lines 862-897 and 906-933: the line is a TITLE: line
ParseTitle ==
    /\ InLoop
    /\ stil_parse_tune_number(Line) <= 0
    /\ stil_get_field_type(Line) = HVSC_FIELD_TITLE
    /\ \/ \E o \in TitleOutcome(Line) :
            LET field == stil_field_new(HVSC_FIELD_TITLE, TitleText(Line),
                                        o.ts.from, o.ts.to)
                r == StoreField(block, tune, field)
            IN  /\ block' = r.block
                /\ tune' = r.tune
                /\ mem' = StoreFieldAt(mem, tune)
                /\ lineno' = lineno + 1
                /\ visits' = Append(visits, Visit(lineno, "loop"))
                /\ oob' = (oob \/ (Len(Line) > 6 /\ Line[Len(Line)] = ")"))
                /\ scan' = o.scan
                /\ pc' = IF o.ok THEN "loop" ELSE AfterInvalidTimestamp
                /\ UNCHANGED <<hvsc_errno, fault>>
       \/ /\ tune > 0                   \* an allocation failed
          /\ pc' = "failed"
          /\ hvsc_errno' = HVSC_ERR_OOM
          /\ fault' = fault \cup {"oom"}
          /\ UNCHANGED <<block, tune, lineno, visits, oob, mem, scan>>
    /\ UNCHANGED <<entry_buffer, blocks, sid_comment, tune_entry>>
    /\ UNCHANGED <<archive, stil, psid_path, entry_read, held, released>>
    /\ UNCHANGED tool_vars

\* lines 900-903 and 906-933: any other line
ParseOther ==
    /\ InLoop
    /\ stil_parse_tune_number(Line) <= 0
    /\ stil_get_field_type(Line) \notin {HVSC_FIELD_COMMENT, HVSC_FIELD_TITLE}
    /\ \/ \E text \in IF Len(Line) >= 9 \/ tune = 0
                      THEN { OtherText(Line) }
                      ELSE GarbageText :
            LET field == stil_field_new(stil_get_field_type(Line), text,
                                        NoTimestamp.from, NoTimestamp.to)
                r == StoreField(block, tune, field)
            IN  /\ block' = r.block
                /\ tune' = r.tune
                /\ mem' = StoreFieldAt(mem, tune)
                /\ lineno' = lineno + 1
                /\ visits' = Append(visits, Visit(lineno, "loop"))
                /\ oob' = (oob \/ (tune > 0 /\ Len(Line) < 9))
                /\ pc' = "loop"
                /\ UNCHANGED <<hvsc_errno, fault>>
       \/ /\ tune > 0                   \* an allocation failed
          /\ pc' = "failed"
          /\ hvsc_errno' = HVSC_ERR_OOM
          /\ fault' = fault \cup {"oom"}
          /\ UNCHANGED <<block, tune, lineno, visits, oob, mem>>
    /\ UNCHANGED <<entry_buffer, blocks, sid_comment, tune_entry>>
    /\ UNCHANGED <<file_vars, scan>>
    /\ UNCHANGED tool_vars

\* lines 937-943: the last block is added and the parser is freed
ParseFinish ==
    /\ pc = "loop"
    /\ lineno >= Len(entry_buffer)
    /\ \/ /\ blocks' = stil_handle_add_block(blocks, block)
          /\ block' = NULL
          /\ mem' = stil_parser_free(stil_handle_add_block_at(mem))
          /\ pc' = "done"
          /\ UNCHANGED <<hvsc_errno, fault>>
       \/ /\ pc' = "failed"             \* stil_handle_add_block() failed
          /\ hvsc_errno' \in {hvsc_errno, HVSC_ERR_OOM}
          /\ fault' = fault \cup {"oom"}
          /\ mem' \in stil_handle_add_block_failed(mem)
          /\ UNCHANGED <<blocks, block>>
    /\ UNCHANGED <<entry_buffer, tune, lineno, sid_comment, tune_entry,
                   visits, oob>>
    /\ UNCHANGED <<file_vars, scan>>
    /\ UNCHANGED tool_vars

\* hvsc_stil_get_tune_entry(handle, &entry, n) after a successful parse
GetTuneEntry ==
    /\ pc = "done"
    /\ tune_entry = NoEntry
    /\ \E n \in 0..MaxQuery : tune_entry' = hvsc_stil_get_tune_entry(blocks, n)
    /\ UNCHANGED <<entry_buffer, pc, tune, lineno, block, blocks, sid_comment,
                   visits, oob, hvsc_errno, fault, mem>>
    /\ UNCHANGED <<file_vars, scan>>
    /\ UNCHANGED tool_vars

Next ==
    \/ ParseInit
    \/ ParseTuneNumber
    \/ ParseComment
    \/ ParseTitle
    \/ ParseOther
    \/ ParseFinish
    \/ GetTuneEntry

Spec == Init /\ [][Next]_vars

---------------------------------------------------------------------------
(* The same parser on entries with timestamps and with lines that carry no *)
(* identifier                                                              *)

TitleLine(text) == Ident(HVSC_FIELD_TITLE) \o <<" ">> \o text

TextLines ==
    { <<"(", "#", "1", ")">>,
      <<"(", "#", "2", ")">>,
      Ident(HVSC_FIELD_COMMENT) \o <<" ", "c">>,
      Ident(HVSC_FIELD_ARTIST) \o <<" ", "a">>,
      TitleLine(<<"t", " ", "(", "1", ":", "3", "0", ")">>),
      TitleLine(<<"t", " ", "(", "0", ":", "3", "0", "-", "2", ":", "1", "5", ")">>),
      TitleLine(<<"t", " ", "(", "x", ")">>),
      TitleLine(<<"t", " ", "(", "1", ":", "3", "0", "-", "x", "x", ")">>),
      TitleLine(<<"(", "1", ":", "3", "0", ")">>),
      <<"x", "y">>,
      <<"s", "t", "r", "a", "y", " ", "t", "e", "x", "t">> }

InitText ==
    /\ entry_buffer \in SeqsUpTo(TextLines, MaxText)
    /\ pc = "start"
    /\ archive = <<>>
    /\ stil = [open |-> TRUE, lineno |-> 0]
    /\ psid_path = [null |-> FALSE, text |-> <<"/", "a">>]
    /\ entry_read = "true"
    /\ held = {"entry_buffer", "stil", "psid_path"}
    /\ InitHandle
    /\ InitTools

SpecText == InitText /\ [][Next]_vars

---------------------------------------------------------------------------
(* The same parser on entries whose TITLE: lines end with ")": the "(" is  *)
(* the first character of the field text, there is none, there is text     *)
(* after the time                                                          *)

TitleLines ==
    { <<"(", "#", "1", ")">>,
      Ident(HVSC_FIELD_COMMENT) \o <<" ", "c">>,
      Ident(HVSC_FIELD_ARTIST) \o <<" ", "a">>,
      TitleLine(<<"t", " ", "(", "1", ":", "3", "0", ")">>),
      TitleLine(<<"(", "1", ":", "3", "0", ")">>),
      TitleLine(<<"1", ":", "3", "0", ")">>),
      TitleLine(<<"t", " ", "(", "1", ":", "3", "0", " ", "x", ")">>) }

InitTitle ==
    /\ entry_buffer \in SeqsUpTo(TitleLines, MaxTitle)
    /\ pc = "start"
    /\ archive = <<>>
    /\ stil = [open |-> TRUE, lineno |-> 0]
    /\ psid_path = [null |-> FALSE, text |-> <<"/", "a">>]
    /\ entry_read = "true"
    /\ held = {"entry_buffer", "stil", "psid_path"}
    /\ InitHandle
    /\ InitTools

SpecTitle == InitTitle /\ [][Next]_vars

---------------------------------------------------------------------------
(* The same parser on entries with tune markers of every kind: the number  *)
(* 0, white space in front of the marker                                   *)

MarkerLines ==
    { <<"(", "#", "0", ")">>,
      <<"(", "#", "1", ")">>,
      <<"(", "#", "2", ")">>,
      <<" ", "(", "#", "2", ")">>,
      Ident(HVSC_FIELD_ARTIST) \o <<" ", "a">>,
      Ident(HVSC_FIELD_TITLE) \o <<" ", "t">>,
      Ident(HVSC_FIELD_COMMENT) \o <<" ", "c">> }

InitMarker ==
    /\ entry_buffer \in SeqsUpTo(MarkerLines, MaxMarker)
    /\ pc = "start"
    /\ archive = <<>>
    /\ stil = [open |-> TRUE, lineno |-> 0]
    /\ psid_path = [null |-> FALSE, text |-> <<"/", "a">>]
    /\ entry_read = "true"
    /\ held = {"entry_buffer", "stil", "psid_path"}
    /\ InitHandle
    /\ InitTools

SpecMarker == InitMarker /\ [][Next]_vars

---------------------------------------------------------------------------
(* hvsc_stil_open() and hvsc_stil_read_entry()                             *)
(*                                                                         *)
(* The file STIL.txt is a sequence of lines; stil.lineno is the number of  *)
(* lines read so far.  A caller is modelled as hvsc-test.c is written: it  *)
(* stops when the open fails, and parses whatever read_entry returned.     *)

\* the HVSC root directory and the path of the PSID file asked for
hvsc_root == <<"/", "r">>

psid == hvsc_root \o <<"/", "a">>

\* hvsc_path_strip_root(): a copy of the path without the root directory
hvsc_path_strip_root(path) ==
    IF strncmp_eq(path, hvsc_root, Len(hvsc_root))
    THEN Skip(path, Len(hvsc_root))
    ELSE path

\* hvsc_string_is_empty(): nothing but white space
hvsc_string_is_empty(s) == \A i \in 1..Len(s) : isspace(s[i])

\* hvsc_text_file_read() without a read error: the next line, or NULL at
\* the end of the file
hvsc_text_file_read(file, f) ==
    IF f.lineno < Len(file)
    THEN [null |-> FALSE, line |-> file[f.lineno + 1],
          stil |-> [f EXCEPT !.lineno = @ + 1]]
    ELSE [null |-> TRUE, line |-> <<>>, stil |-> f]

\* hvsc_stil_close(): the file is closed, nothing is held any more
hvsc_stil_close(f) == [f EXCEPT !.open = FALSE]

\* something hvsc_stil_close() hands to free() or closes: the file, the copy
\* of the path, the line buffer, line id of the buffer, the SID-wide comment,
\* the block or field object at address id
Res(kind, id) == [kind |-> kind, id |-> id]

\* stil_block_free() keeping the fields: only the block itself is freed
stil_block_frees_NoFields(b) == <<Res("object", b.block)>>

\* stil_block_free() of a block of the document: what it frees, in order:
\* every field, then the block
stil_block_frees(b) ==
    [i \in 1..Len(b.fields) |-> Res("object", b.fields[i])]
        \o <<Res("object", b.block)>>

\* stil_handle_free_blocks(): what it frees, block by block
RECURSIVE stil_handle_free_blocks_frees(_)
stil_handle_free_blocks_frees(bs) ==
    IF bs = <<>> THEN <<>>
    ELSE stil_block_frees(Head(bs)) \o stil_handle_free_blocks_frees(Tail(bs))

\* stil_handle_free_blocks() as the allocator sees it
stil_handle_free_blocks(m) ==
    LET freed == stil_handle_free_blocks_frees(m.blocks)
    IN  [m EXCEPT !.live = @ \ { freed[i].id : i \in 1..Len(freed) },
                  !.blocks = <<>>]

\* lines 561-580: what hvsc_stil_close() releases, in order; free(NULL) does
\* nothing
stil_close_frees(path, buf, comment, m) ==
    <<Res("stil", 0)>>
        \o (IF path.null THEN <<>> ELSE <<Res("psid_path", 0)>>)
        \o [i \in 1..Len(buf) |-> Res("line", i)]
        \o <<Res("entry_buffer", 0)>>
        \o (IF comment.null THEN <<>> ELSE <<Res("sid_comment", 0)>>)
        \o stil_handle_free_blocks_frees(m.blocks)

\* lines 530-546 without a read error: the reader when the loop ends, and
\* whether the loop ended on the line of the PSID file
RECURSIVE stil_find_entry(_, _, _)
stil_find_entry(file, f, path) ==
    LET r == hvsc_text_file_read(file, f)
    IN  IF r.null THEN [found |-> FALSE, stil |-> f]
        ELSE IF r.line = path THEN [found |-> TRUE, stil |-> r.stil]
        ELSE stil_find_entry(file, r.stil, path)

\* ReadFailedErrno() leaving the error code alone at the end of the file
ReadFailedErrno_NoEof(eof, e) == e

\* lines 532-539: the error code after a read that returned NULL: at the end
\* of the file the entry is simply not found, else the code is already set
ReadFailedErrno(eof, e) == IF eof THEN HVSC_ERR_NOT_FOUND ELSE e

\* hvsc_stil_entry_add_line() putting the line in front
hvsc_stil_entry_add_line_Front(buf, line) == <<line>> \o buf

\* hvsc_stil_entry_add_line(): a copy of the line goes to the end
hvsc_stil_entry_add_line(buf, line) == Append(buf, line)

\* hvsc_stil_read_entry() without a failure: lines are added until the end
\* of the file or an empty line
RECURSIVE read_entry(_, _, _)
read_entry(file, f, buf) ==
    LET r == hvsc_text_file_read(file, f)
    IN  IF r.null THEN [stil |-> f, entry_buffer |-> buf]
        ELSE IF hvsc_string_is_empty(r.line)
        THEN [stil |-> r.stil, entry_buffer |-> buf]
        ELSE read_entry(file, r.stil, hvsc_stil_entry_add_line(buf, r.line))

\* the same when the k-th line cannot be read or cannot be added: the lines
\* before it are in the buffer
RECURSIVE read_entry_failed(_, _, _, _)
read_entry_failed(file, f, buf, k) ==
    IF k = 1 THEN [stil |-> f, entry_buffer |-> buf]
    ELSE read_entry_failed(file, [f EXCEPT !.lineno = @ + 1],
                           hvsc_stil_entry_add_line(buf, file[f.lineno + 1]),
                           k - 1)

ArchiveLines ==
    { hvsc_path_strip_root(psid),
      <<"/", "b">>,
      <<>>,
      <<"(", "#", "2", ")">>,
      Ident(HVSC_FIELD_COMMENT) \o <<" ", "c">>,
      Ident(HVSC_FIELD_TITLE) \o <<" ", "t">>,
      Ident(HVSC_FIELD_ARTIST) \o <<" ", "a">> }

\* the program before hvsc_stil_open()
InitOpen ==
    /\ archive \in SeqsUpTo(ArchiveLines, MaxArchive)
    /\ pc = "closed"
    /\ entry_buffer = <<>>
    /\ stil = [open |-> FALSE, lineno |-> 0]
    /\ psid_path = NoComment
    /\ entry_read = "none"
    /\ held = {}
    /\ InitHandle
    /\ InitTools

\* the variables of the parser, which hvsc_stil_open() only initialises
parse_vars == <<tune, lineno, block, blocks, sid_comment, tune_entry, visits,
                oob, mem, scan>>

\* lines 501-552
StilOpen ==
    /\ pc = "closed"
    /\ \/ /\ pc' = "open_failed"        \* the line buffer was not allocated
          /\ hvsc_errno' = HVSC_ERR_OOM
          /\ fault' = fault \cup {"oom"}
          /\ UNCHANGED <<stil, psid_path, held, released>>
       \/ /\ pc' = "open_failed"        \* hvsc_text_file_open() failed
          /\ hvsc_errno' = HVSC_ERR_IO
          /\ fault' = fault \cup {"io"}
          /\ held' = {"entry_buffer"}
          /\ UNCHANGED <<stil, psid_path, released>>
       \/ /\ pc' = "open_failed"        \* hvsc_path_strip_root() failed
          /\ hvsc_errno' = HVSC_ERR_OOM
          /\ fault' = fault \cup {"oom"}
          /\ stil' = hvsc_stil_close([stil EXCEPT !.open = TRUE])
          /\ held' = {}
          /\ released' = released \o stil_close_frees(psid_path, entry_buffer,
                                                      sid_comment, mem)
          /\ UNCHANGED psid_path
       \/ \E k \in 1..(Len(archive) + 1) :  \* the k-th read failed
            /\ LET r == stil_find_entry(archive, stil, hvsc_path_strip_root(psid))
               IN  k <= IF r.found THEN r.stil.lineno ELSE r.stil.lineno + 1
            /\ pc' = "open_failed"
            /\ hvsc_errno' = ReadFailedErrno(FALSE, HVSC_ERR_IO)
            /\ fault' = fault \cup {"io"}
            /\ psid_path' = [null |-> FALSE, text |-> hvsc_path_strip_root(psid)]
            /\ stil' = hvsc_stil_close([open |-> TRUE, lineno |-> k - 1])
            /\ held' = {}
            /\ released' = released \o stil_close_frees(psid_path', entry_buffer,
                                                        sid_comment, mem)
       \/ LET r == stil_find_entry(archive, [stil EXCEPT !.open = TRUE],
                                   hvsc_path_strip_root(psid))
          IN  /\ psid_path' = [null |-> FALSE, text |-> hvsc_path_strip_root(psid)]
              /\ IF r.found
                 THEN /\ pc' = "opened"
                      /\ stil' = r.stil
                      /\ held' = {"entry_buffer", "stil", "psid_path"}
                      /\ UNCHANGED <<hvsc_errno, released>>
                 ELSE /\ pc' = "open_failed"
                      /\ hvsc_errno' = ReadFailedErrno(TRUE, hvsc_errno)
                      /\ stil' = hvsc_stil_close(r.stil)
                      /\ held' = {}
                      /\ released' =
                            released \o stil_close_frees(psid_path', entry_buffer,
                                                         sid_comment, mem)
              /\ UNCHANGED fault
    /\ UNCHANGED <<archive, entry_buffer, entry_read>>
    /\ UNCHANGED parse_vars
    /\ UNCHANGED tool_vars

\* lines 628-656, and lines 592-617 for every line added
StilReadEntry ==
    /\ pc = "opened"
    /\ LET r == read_entry(archive, stil, entry_buffer)
           n == Len(r.entry_buffer) - Len(entry_buffer)
       IN  \/ /\ entry_buffer' = r.entry_buffer
              /\ stil' = r.stil
              /\ entry_read' = "true"
              /\ UNCHANGED <<hvsc_errno, fault>>
           \/ \E k \in 1..(n + 1) :      \* the k-th read failed
                LET q == read_entry_failed(archive, stil, entry_buffer, k)
                IN  /\ entry_buffer' = q.entry_buffer
                    /\ stil' = q.stil
                    /\ entry_read' = "false"
                    /\ hvsc_errno' = HVSC_ERR_IO
                    /\ fault' = fault \cup {"io"}
           \/ \E k \in 1..n :            \* the k-th line could not be added
                LET q == read_entry_failed(archive, stil, entry_buffer, k)
                IN  /\ entry_buffer' = q.entry_buffer
                    /\ stil' = [q.stil EXCEPT !.lineno = @ + 1]
                    /\ entry_read' = "false"
                    /\ hvsc_errno' = HVSC_ERR_OOM
                    /\ fault' = fault \cup {"oom"}
    /\ pc' = "start"
    /\ UNCHANGED <<archive, psid_path, held, released>>
    /\ UNCHANGED parse_vars
    /\ UNCHANGED tool_vars

NextOpen ==
    \/ StilOpen
    \/ StilReadEntry
    \/ Next

SpecOpen == InitOpen /\ [][NextOpen]_vars

---------------------------------------------------------------------------
(* hvsc_stil_close(), called as hvsc-test.c calls it: once, after the      *)
(* parse, whether the parse succeeded or failed                            *)

\* lines 561-580
StilClose ==
    /\ pc \in {"done", "failed"}
    /\ pc' = "end"
    /\ released' = released \o stil_close_frees(psid_path, entry_buffer,
                                                sid_comment, mem)
    /\ stil' = hvsc_stil_close(stil)
    /\ held' = held \ {"stil", "psid_path", "entry_buffer"}
    /\ mem' = stil_handle_free_blocks(mem)
    /\ blocks' = <<>>
    /\ UNCHANGED <<archive, entry_buffer, psid_path, entry_read, hvsc_errno,
                   fault, tune, lineno, block, sid_comment, tune_entry, visits,
                   oob, scan>>
    /\ UNCHANGED tool_vars

NextClose ==
    \/ StilClose
    \/ NextOpen

SpecClose == InitOpen /\ [][NextClose]_vars

---------------------------------------------------------------------------
(* hvsc_stil_close() called once more on the same handle: after a close,   *)
(* or after an hvsc_stil_open() that returned false.  The call leaves      *)
(* psid_path, entry_buffer, entry_bufused and sid_comment as they are;     *)
(* only blocks is set to NULL, by stil_handle_free_blocks().               *)

\* handle->entry_buffer != NULL: the buffer was allocated at some time
entry_buffer_set ==
    \/ "entry_buffer" \in held
    \/ \E i \in 1..Len(released) : released[i] = Res("entry_buffer", 0)

\* lines 561-580 on the handle as it is: the file is closed when it is
\* open, every pointer that is not NULL is handed to free()
stil_close_frees_again ==
    (IF stil.open THEN <<Res("stil", 0)>> ELSE <<>>)
        \o (IF psid_path.null THEN <<>> ELSE <<Res("psid_path", 0)>>)
        \o (IF entry_buffer_set
            THEN [i \in 1..Len(entry_buffer) |-> Res("line", i)]
                    \o <<Res("entry_buffer", 0)>>
            ELSE <<>>)
        \o (IF sid_comment.null THEN <<>> ELSE <<Res("sid_comment", 0)>>)
        \o stil_handle_free_blocks_frees(mem.blocks)

StilCloseAgain ==
    /\ pc \in {"end", "open_failed"}
    /\ pc' = "closed_again"
    /\ released' = released \o stil_close_frees_again
    /\ stil' = hvsc_stil_close(stil)
    /\ held' = held \ {"stil", "psid_path", "entry_buffer"}
    /\ mem' = stil_handle_free_blocks(mem)
    /\ blocks' = <<>>
    /\ UNCHANGED <<archive, entry_buffer, psid_path, entry_read, hvsc_errno,
                   fault, tune, lineno, block, sid_comment, tune_entry, visits,
                   oob, scan>>
    /\ UNCHANGED tool_vars

NextReclose ==
    \/ StilCloseAgain
    \/ NextClose

SpecReclose == InitOpen /\ [][NextReclose]_vars

---------------------------------------------------------------------------
(* The parser as a call that runs on: once hvsc_stil_parse_entry() is      *)
(* called, the thread that runs it takes its next step as long as it has   *)
(* one, which is weak fairness of the steps of the call.                   *)

LoopLines ==
    { <<"(", "#", "2", ")">>,
      Ident(HVSC_FIELD_COMMENT) \o <<" ", "c">>,
      NineSpaces \o <<"d">>,
      Ident(HVSC_FIELD_ARTIST) \o <<" ", "a">>,
      Ident(HVSC_FIELD_TITLE) \o <<" ", "t">> }

InitLoop ==
    /\ entry_buffer \in SeqsUpTo(LoopLines, MaxLoop)
    /\ pc = "start"
    /\ archive = <<>>
    /\ stil = [open |-> TRUE, lineno |-> 0]
    /\ psid_path = [null |-> FALSE, text |-> <<"/", "a">>]
    /\ entry_read = "true"
    /\ held = {"entry_buffer", "stil", "psid_path"}
    /\ InitHandle
    /\ InitTools

\* the steps of hvsc_stil_parse_entry()
ParseStep ==
    \/ ParseInit
    \/ ParseTuneNumber
    \/ ParseComment
    \/ ParseTitle
    \/ ParseOther
    \/ ParseFinish

SpecLoop == InitLoop /\ [][Next]_vars /\ WF_vars(ParseStep)

---------------------------------------------------------------------------
(* The same parser on entries with more fields than the fields array of a  *)
(* block holds at first: a marker, then up to MaxFields field lines that   *)
(* each carry their own number as text                                     *)

NumberText(i) ==
    LET digit == <<"0", "1", "2", "3", "4", "5", "6", "7", "8", "9">>
    IN  <<digit[(i \div 10) + 1], digit[(i % 10) + 1]>>

\* field line i of the entry that starts its round of identifiers at off
NumberedLine(off, i) ==
    LET types == <<HVSC_FIELD_ARTIST, HVSC_FIELD_TITLE, HVSC_FIELD_COMMENT,
                   HVSC_FIELD_NAME>>
    IN  Ident(types[((off + i) % 4) + 1]) \o <<" ">> \o NumberText(i)

NumberedEntry(off, n) ==
    << <<"(", "#", IF off % 2 = 0 THEN "1" ELSE "2", ")">> >>
        \o [i \in 1..n |-> NumberedLine(off, i)]

InitFields ==
    /\ entry_buffer \in { NumberedEntry(off, n) : off \in 0..3, n \in 0..MaxFields }
    /\ pc = "start"
    /\ archive = <<>>
    /\ stil = [open |-> TRUE, lineno |-> 0]
    /\ psid_path = [null |-> FALSE, text |-> <<"/", "a">>]
    /\ entry_read = "true"
    /\ held = {"entry_buffer", "stil", "psid_path"}
    /\ InitHandle
    /\ InitTools

SpecFields == InitFields /\ [][Next]_vars

---------------------------------------------------------------------------
(* sldb.c: the song lengths of a PSID file.  A line of the database is the *)
(* MD5 digest of a file as 32 hexadecimal digits, "=", and the lengths of  *)
(* its songs.  The digest itself is computed by libgcrypt and is an input. *)

\* the digest of the PSID file asked for, and that of another file
FileDigest == [i \in 1..HVSC_DIGEST_SIZE |-> 171]

OtherDigest == [i \in 1..HVSC_DIGEST_SIZE |-> 1]

\* what a digest buffer that was never written can hold
GarbageDigest == { FileDigest, OtherDigest, [i \in 1..HVSC_DIGEST_SIZE |-> 0] }

\* lines 205-212: snprintf("%02x") of every byte of the digest
hash_text(hash) ==
    LET digit == <<"0", "1", "2", "3", "4", "5", "6", "7", "8", "9",
                   "a", "b", "c", "d", "e", "f">>
    IN  [i \in 1..(2 * Len(hash)) |->
            IF i % 2 = 1 THEN digit[(hash[(i + 1) \div 2] \div 16) + 1]
            ELSE digit[(hash[i \div 2] % 16) + 1]]

\* memcmp(s, t, n) == 0
memcmp_eq(s, t, n) ==
    Len(s) >= n /\ Len(t) >= n /\ SubSeq(s, 1, n) = SubSeq(t, 1, n)

\* find_sldb_entry() without a failure: a copy of the first line that starts
\* with the digest, or NULL
find_sldb_entry(file, digest) ==
    IF \E i \in 1..Len(file) : memcmp_eq(digest, file[i], HVSC_DIGEST_SIZE * 2)
    THEN [null |-> FALSE,
          line |-> file[CHOOSE i \in 1..Len(file) :
                        /\ memcmp_eq(digest, file[i], HVSC_DIGEST_SIZE * 2)
                        /\ \A j \in 1..(i - 1) :
                              ~memcmp_eq(digest, file[j], HVSC_DIGEST_SIZE * 2)]]
    ELSE [null |-> TRUE, line |-> <<>>]

\* lines 154-177: the loop of parse_sldb_entry() from p on, with the lengths
\* found so far; -1 when something is no H:MM
RECURSIVE parse_lengths(_, _)
parse_lengths(p, entries) ==
    LET q == Skip(p, SpaceRun(p))
        r == hvsc_parse_simple_timestamp(q)
    IN  IF q = <<>>
        THEN [num |-> Len(entries), null |-> FALSE, lengths |-> entries]
        ELSE IF r.result < 0
        THEN [num |-> -1, null |-> TRUE, lengths |-> <<>>]
        ELSE parse_lengths(r.endptr, Append(entries, r.result))

\* parse_sldb_entry(): the digest and the "=" are stepped over
parse_sldb_entry(line) ==
    parse_lengths(Skip(line, HVSC_DIGEST_SIZE * 2 + 1), <<>>)

\* lines 244-251 of hvsc_sldb_get_lengths(): after a failed parse the
\* function returns false, which is 0
hvsc_sldb_get_lengths(entry) ==
    LET result == parse_sldb_entry(entry)
    IN  IF result.num < 0
        THEN [num |-> 0, null |-> TRUE, lengths |-> <<>>]
        ELSE result

SldbLine(digest, text) == hash_text(digest) \o <<"=">> \o text

SldbLines ==
    { SldbLine(FileDigest, <<"1", ":", "3", "0", " ", "0", ":", "0", "5">>),
      SldbLine(FileDigest, <<"1", ":", "3", "0", " ", "x">>),
      SldbLine(FileDigest, <<>>),
      SldbLine(OtherDigest, <<"2", ":", "0", "0">>) }

\* the program before any call, with nothing of stil.c in use
InitIdle ==
    /\ archive = <<>>
    /\ pc = "closed"
    /\ entry_buffer = <<>>
    /\ stil = [open |-> FALSE, lineno |-> 0]
    /\ psid_path = NoComment
    /\ entry_read = "none"
    /\ held = {}
    /\ InitHandle

InitSldb ==
    /\ sldb_file \in SeqsUpTo(SldbLines, MaxSldb)
    /\ sldb_call = NoLengths
    /\ psid_data = <<>>
    /\ psid_call = NoPsid
    /\ InitIdle

\* what hvsc_sldb_get_lengths() returns when it fails before the parse
LengthsFailed(error) ==
    [called |-> TRUE, num |-> -1, null |-> TRUE, lengths |-> <<>>,
     error |-> error]

\* lines 226-252, with create_md5_hash() (49-85), hvsc_sldb_get_entry()
\* (190-222) and find_sldb_entry() (97-125)
SldbGetLengths ==
    /\ ~sldb_call.called
    /\ \/ sldb_call' = LengthsFailed("io")      \* the PSID file was not read
       \/ \E hash \in GarbageDigest \cup {FileDigest}, error \in {"none", "gcrypt"} :
            \* gcry_md_open() failed: create_md5_hash() returns -1, which is
            \* true, and the digest buffer is as it was
            /\ error = "none" => hash = FileDigest
            /\ LET entry == find_sldb_entry(sldb_file, hash_text(hash))
                   r == hvsc_sldb_get_lengths(entry.line)
               IN  \/ sldb_call' = LengthsFailed("io")   \* open or read failed
                   \/ /\ entry.null
                      /\ sldb_call' =
                            LengthsFailed(IF error = "none" THEN "not_found"
                                          ELSE error)
                   \/ /\ ~entry.null             \* the line was not copied
                      /\ sldb_call' = LengthsFailed("oom")
                   \/ /\ ~entry.null             \* malloc() of the lengths failed
                      /\ sldb_call' = [called |-> TRUE, num |-> 0, null |-> TRUE,
                                       lengths |-> <<>>, error |-> "oom"]
                   \/ /\ ~entry.null
                      /\ sldb_call' =
                            [called |-> TRUE, num |-> r.num, null |-> r.null,
                             lengths |-> r.lengths,
                             error |-> IF error # "none" THEN error
                                       ELSE IF parse_sldb_entry(entry.line).num < 0
                                       THEN "parse" ELSE "none"]
    /\ UNCHANGED <<sldb_file, psid_data, psid_call>>
    /\ UNCHANGED stil_vars

SpecSldb == InitSldb /\ [][SldbGetLengths]_vars

---------------------------------------------------------------------------
(* psid.c: opening a PSID file.  Of the file only the first bytes, the     *)
(* magic, matter here.                                                     *)

HVSC_PSID_MAGIC_LEN == 4

\* the bytes 'P', 'S', 'I', 'D'
psid_magic == <<80, 83, 73, 68>>

\* the array rsid_magic[] as the source initialises it
rsid_magic == <<80, 83, 73, 68>>

\* psid_header_is_valid()
psid_header_is_valid(header) ==
    \/ memcmp_eq(header, psid_magic, HVSC_PSID_MAGIC_LEN)
    \/ memcmp_eq(header, rsid_magic, HVSC_PSID_MAGIC_LEN)

\* the bytes a file can start with: 'P', 'R', 'S', 'I', 'D'
MagicBytes == {80, 82, 83, 73, 68}

InitPsid ==
    /\ psid_data \in [1..HVSC_PSID_MAGIC_LEN -> MagicBytes]
    /\ psid_call = NoPsid
    /\ sldb_file = <<>>
    /\ sldb_call = NoLengths
    /\ InitIdle

\* lines 197-248
PsidOpen ==
    /\ ~psid_call.called
    /\ \/ psid_call' = [called |-> TRUE, result |-> FALSE, error |-> "io"]
       \/ \* the file is shorter than the smallest header
          psid_call' = [called |-> TRUE, result |-> FALSE, error |-> "size"]
       \/ /\ ~psid_header_is_valid(psid_data)
          /\ psid_call' = [called |-> TRUE, result |-> FALSE, error |-> "magic"]
       \/ /\ psid_header_is_valid(psid_data)      \* the path was not copied
          /\ psid_call' = [called |-> TRUE, result |-> FALSE, error |-> "oom"]
       \/ /\ psid_header_is_valid(psid_data)
          /\ psid_call' = [called |-> TRUE, result |-> TRUE, error |-> "none"]
    /\ UNCHANGED <<psid_data, sldb_file, sldb_call>>
    /\ UNCHANGED stil_vars

SpecPsid == InitPsid /\ [][PsidOpen]_vars

---------------------------------------------------------------------------
(* What the entry text says, read off the text alone                       *)

\* the marker lines "(#1)" and "(#2)"
Marker(n) == <<"(", "#", IF n = 1 THEN "1" ELSE "2", ")">>

IsMarker(line) == line \in { Marker(1), Marker(2) }

MarkerNumber(line) == IF line = Marker(1) THEN 1 ELSE 2

\* the line starts with the 8 characters of the identifier of that type
IsFieldLine(line, type) ==
    Len(line) >= 8 /\ \A k \in 1..8 : line[k] = Ident(type)[k]

IsTagged(line) ==
    \E type \in HVSC_FIELD_ARTIST..HVSC_FIELD_TITLE : IsFieldLine(line, type)

\* a line with the 9 characters to strip: the identifier and one more
HasPrefix(line) == Len(line) >= 9

\* the line with its first n characters removed
Stripped(line, n) == [k \in 1..(Len(line) - n) |-> line[k + n]]

\* the tune numbers of the blocks of the document, in order
BlockTunes == [i \in 1..Len(blocks) |-> blocks[i].tune]

---------------------------------------------------------------------------
(* C1: for an entry "(#1)", one or more tagged lines, "(#2)", one or more  *)
(* tagged lines, a successful parse leaves exactly two blocks, the first   *)
(* with tune number 1 and the second with tune number 2.                   *)

\* the entries C1 is about: k is the place of the "(#2)" line
IsOneThenTwo(buf) ==
    \E k \in 3..(Len(buf) - 1) :
        /\ buf[1] = Marker(1)
        /\ buf[k] = Marker(2)
        /\ \A i \in (2..Len(buf)) \ {k} : IsTagged(buf[i]) /\ HasPrefix(buf[i])

C1_TwoBlocksOneThenTwo ==
    (pc = "done" /\ IsOneThenTwo(entry_buffer)) => BlockTunes = <<1, 2>>

---------------------------------------------------------------------------
(* The document an entry of markers and plain fields describes             *)

\* an ARTIST:, AUTHOR: or NAME: line with text
IsPlainField(line) ==
    /\ HasPrefix(line)
    /\ \E type \in {HVSC_FIELD_ARTIST, HVSC_FIELD_AUTHOR, HVSC_FIELD_NAME} :
            IsFieldLine(line, type)

PlainType(line) ==
    CHOOSE type \in {HVSC_FIELD_ARTIST, HVSC_FIELD_AUTHOR, HVSC_FIELD_NAME} :
        IsFieldLine(line, type)

\* the field a plain field line describes
PlainField(line) ==
    [type |-> PlainType(line), text |-> Stripped(line, 9),
     timestamp |-> NoTimestamp]

\* an entry that starts with a marker and holds markers and plain fields only
IsMarkedEntry(buf) ==
    /\ Len(buf) > 0
    /\ IsMarker(buf[1])
    /\ \A i \in 1..Len(buf) : IsMarker(buf[i]) \/ IsPlainField(buf[i])

\* its blocks: a marker with a new tune number opens a block, a field goes
\* to the block of the last marker before it
RECURSIVE TextBlocks(_)
TextBlocks(buf) ==
    IF buf = <<>> THEN <<>>
    ELSE LET before == TextBlocks(SubSeq(buf, 1, Len(buf) - 1))
             line == buf[Len(buf)]
         IN  IF IsMarker(line)
             THEN IF before # <<>> /\ before[Len(before)].tune = MarkerNumber(line)
                  THEN before
                  ELSE Append(before, [tune |-> MarkerNumber(line), fields |-> <<>>])
             ELSE [before EXCEPT ![Len(before)].fields = Append(@, PlainField(line))]

---------------------------------------------------------------------------
(* C2: after a successful parse the blocks are those of the tune markers   *)
(* in the order the markers stand in the entry, not sorted, each block     *)
(* holding the fields that follow its marker: "(#2)", fields, "(#1)",      *)
(* fields gives the blocks of tunes 2 and 1 in that order.                 *)

\* every marker of the entry is followed by a field of its own
HasFieldsAfterEveryMarker(buf) ==
    \A i \in 1..Len(buf) :
        IsMarker(buf[i]) => (i < Len(buf) /\ ~IsMarker(buf[i + 1]))

\* a marker with a higher tune number stands before one with a lower number
HasMarkersOutOfOrder(buf) ==
    \E i, j \in 1..Len(buf) :
        /\ i < j
        /\ IsMarker(buf[i]) /\ IsMarker(buf[j])
        /\ MarkerNumber(buf[i]) > MarkerNumber(buf[j])

C2_BlocksInMarkerOrder ==
    ( /\ pc = "done"
      /\ IsMarkedEntry(entry_buffer)
      /\ HasFieldsAfterEveryMarker(entry_buffer)
      /\ HasMarkersOutOfOrder(entry_buffer) )
        => blocks = TextBlocks(entry_buffer)

---------------------------------------------------------------------------
(* C3: after a successful parse hvsc_stil_get_tune_entry(n) finds, for     *)
(* every n that stands in a marker of the entry, exactly the fields that   *)
(* follow that marker, in order, and reports every n that is the tune      *)
(* number of no block as absent.                                           *)

C3_TuneEntryOfEveryMarker ==
    (pc = "done" /\ tune_entry # NoEntry) =>
        /\ (\A i \in 1..Len(blocks) : blocks[i].tune # tune_entry.tune)
                => ~tune_entry.found
        /\ IsMarkedEntry(entry_buffer) =>
                \A i \in 1..Len(TextBlocks(entry_buffer)) :
                    TextBlocks(entry_buffer)[i].tune = tune_entry.tune =>
                        /\ tune_entry.found
                        /\ tune_entry.fields = TextBlocks(entry_buffer)[i].fields

---------------------------------------------------------------------------
(* C4: when the first line of an entry is an ARTIST:, AUTHOR:, NAME: or    *)
(* TITLE: line, the parser stores no field for it in any block and sets    *)
(* the tune number of the working block to 1.                              *)

C4_FirstFieldLineNotStored ==
    [][ ( /\ InLoop
          /\ lineno = 0
          /\ \E type \in {HVSC_FIELD_ARTIST, HVSC_FIELD_AUTHOR,
                          HVSC_FIELD_NAME, HVSC_FIELD_TITLE} :
                IsFieldLine(Line, type) )
        => ( /\ pc' = "loop"
             /\ lineno' = 1
             /\ blocks' = <<>>
             /\ block'.fields = <<>>
             /\ block'.tune = 1
             /\ tune' = 1 ) ]_vars

C4_Witness ==
    /\ pc = "loop"
    /\ lineno = 1
    /\ IsFieldLine(entry_buffer[1], HVSC_FIELD_AUTHOR)
    /\ blocks = <<>>
    /\ block = [tune |-> 1, fields |-> <<>>]

---------------------------------------------------------------------------
(* C5: a COMMENT: line handled while the tune number is still 0 stores the *)
(* merged comment text as the SID-wide comment of the document, creates no *)
(* field in any block and turns the working block into that of tune 1.     *)

C5_GlobalComment ==
    [][ ( /\ InLoop
          /\ tune = 0
          /\ IsFieldLine(Line, HVSC_FIELD_COMMENT)
          /\ pc' = "loop" )
        => ( /\ sid_comment' =
                    [null |-> FALSE,
                     text |-> stil_parse_comment(entry_buffer, lineno).comment]
             /\ blocks' = blocks
             /\ block'.fields = block.fields
             /\ block'.tune = 1
             /\ tune' = 1 ) ]_vars

C5_Witness ==
    /\ pc = "loop"
    /\ Len(entry_buffer) > 0
    /\ IsFieldLine(entry_buffer[1], HVSC_FIELD_COMMENT)
    /\ lineno > 0
    /\ ~sid_comment.null
    /\ blocks = <<>>
    /\ block = [tune |-> 1, fields |-> <<>>]

---------------------------------------------------------------------------
(* C6: a COMMENT: line handled while the tune number is n > 0 appends      *)
(* exactly one field of type comment, whose text is the merged comment     *)
(* text, to the working block and leaves the SID-wide comment unchanged.   *)

C6_TuneComment ==
    [][ ( /\ InLoop
          /\ tune > 0
          /\ IsFieldLine(Line, HVSC_FIELD_COMMENT)
          /\ pc' = "loop" )
        => ( /\ block'.fields =
                    Append(block.fields,
                           [type |-> HVSC_FIELD_COMMENT,
                            text |-> stil_parse_comment(entry_buffer, lineno).comment,
                            timestamp |-> NoTimestamp])
             /\ block'.tune = block.tune
             /\ blocks' = blocks
             /\ sid_comment' = sid_comment
             /\ tune' = tune ) ]_vars

C6_Witness ==
    /\ pc = "loop"
    /\ lineno = 2
    /\ entry_buffer[1] = Marker(2)
    /\ IsFieldLine(entry_buffer[2], HVSC_FIELD_COMMENT)
    /\ sid_comment.null
    /\ block = [tune |-> 2,
                fields |-> <<[type |-> HVSC_FIELD_COMMENT, text |-> <<"c">>,
                              timestamp |-> NoTimestamp]>>]

---------------------------------------------------------------------------
(* C7: for a COMMENT: line followed by k >= 0 lines that each start with 9 *)
(* spaces, the merged comment text is the COMMENT: line without its first  *)
(* 9 characters, followed by each of the k lines without its first 8       *)
(* characters, in order, with nothing put between them.  (A COMMENT: line  *)
(* of 8 characters has no 9 characters to remove and is not covered.)      *)

StartsWithNineSpaces(line) == Len(line) >= 9 /\ \A j \in 1..9 : line[j] = " "

\* the number of lines after line p that each start with 9 spaces
IndentedRun(buf, p) ==
    CHOOSE k \in 0..(Len(buf) - p) :
        /\ \A j \in 1..k : StartsWithNineSpaces(buf[p + j])
        /\ (p + k = Len(buf) \/ ~StartsWithNineSpaces(buf[p + k + 1]))

RECURSIVE Joined(_, _, _)
Joined(buf, p, k) ==
    IF k = 0 THEN Stripped(buf[p], 9)
    ELSE Joined(buf, p, k - 1) \o Stripped(buf[p + k], 8)

MergedText(buf, p) == Joined(buf, p, IndentedRun(buf, p))

---------------------------------------------------------------------------
(* C8: comment accumulation stops at the first following line that does    *)
(* not start with 9 spaces, or at the end of the buffer, and the main loop *)
(* goes on at exactly that line: every line of the buffer is consumed as   *)
(* the continuation of one comment or handled once by the main loop, none  *)
(* is skipped and none is handled twice.                                   *)

\* line k follows a COMMENT: line with nothing but indented lines between
FollowsComment(buf, k) ==
    \E c \in 1..(k - 1) :
        /\ IsFieldLine(buf[c], HVSC_FIELD_COMMENT)
        /\ \A j \in (c + 1)..k : StartsWithNineSpaces(buf[j])

C8_EveryLineOnce ==
    pc \in {"loop", "done"} =>
        /\ lineno <= Len(entry_buffer)
        /\ pc = "done" => lineno = Len(entry_buffer)
        /\ Len(visits) = lineno
        /\ \A k \in 1..Len(visits) :
            /\ visits[k].line = k - 1
            /\ visits[k].by = IF FollowsComment(entry_buffer, k)
                              THEN "comment" ELSE "loop"

C8_Witness ==
    /\ pc = "done"
    /\ \E k \in 2..(Len(visits) - 1) :
        /\ visits[k].by = "comment"
        /\ visits[k + 1] = [line |-> k, by |-> "loop"]
        /\ ~IsFieldLine(entry_buffer[k + 1], HVSC_FIELD_COMMENT)

---------------------------------------------------------------------------
(* C9: every ARTIST:, AUTHOR: or NAME: line handled while the tune number  *)
(* is greater than 0 appends exactly one field, of the type of its         *)
(* identifier, whose text is the line without its first 9 characters.  (A  *)
(* line of the identifier alone has no 9 characters to remove and is not   *)
(* covered.)                                                               *)

---------------------------------------------------------------------------
(* C10: the text of every TITLE: field is the TITLE: line without its      *)
(* first 9 characters, so never holds the identifier, whether or not the   *)
(* line ends with ")".                                                     *)

C10_TitleTextStripped ==
    [][ ( /\ InLoop
          /\ tune > 0
          /\ IsFieldLine(Line, HVSC_FIELD_TITLE)
          /\ HasPrefix(Line)
          /\ pc' = "loop" )
        => ( /\ Len(block'.fields) = Len(block.fields) + 1
             /\ block'.fields[Len(block'.fields)].type = HVSC_FIELD_TITLE
             /\ block'.fields[Len(block'.fields)].text = Stripped(Line, 9) ) ]_vars

---------------------------------------------------------------------------
(* What a TITLE: line says about a timestamp, read off the text alone      *)

\* the field text of the line ends with ")" and holds a "("
EndsWithParenthetical(line) ==
    /\ HasPrefix(line)
    /\ line[Len(line)] = ")"
    /\ \E k \in 10..Len(line) : line[k] = "("

\* the text between the last "(" of the line and the ")" that ends it
Parenthetical(line) ==
    LET k == CHOOSE i \in 10..Len(line) :
                line[i] = "(" /\ \A j \in (i + 1)..Len(line) : line[j] # "("
    IN  [i \in 1..(Len(line) - k - 1) |-> line[i + k]]

IsDigits(s) == Len(s) > 0 /\ \A i \in 1..Len(s) : isdigit(s[i])

\* s is H:MM, one or more digits, a colon, two digits
IsHMM(s) ==
    /\ Len(s) >= 4
    /\ s[Len(s) - 2] = ":"
    /\ IsDigits(SubSeq(s, 1, Len(s) - 3))
    /\ IsDigits(SubSeq(s, Len(s) - 1, Len(s)))

\* H*60 + MM
Seconds(s) ==
    Decimal(SubSeq(s, 1, Len(s) - 3)) * 60 + Decimal(SubSeq(s, Len(s) - 1, Len(s)))

\* s is H:MM-H:MM
IsRange(s) ==
    \E d \in 1..Len(s) :
        /\ s[d] = "-"
        /\ IsHMM(SubSeq(s, 1, d - 1))
        /\ IsHMM(SubSeq(s, d + 1, Len(s)))

\* the timestamp the text s stands for
TextTimestamp(s) ==
    IF IsHMM(s) THEN [from |-> Seconds(s), to |-> -1]
    ELSE LET d == CHOOSE i \in 1..Len(s) : s[i] = "-"
         IN  [from |-> Seconds(SubSeq(s, 1, d - 1)),
              to |-> Seconds(SubSeq(s, d + 1, Len(s)))]

\* a TITLE: line is handled with a tune number, the search for "(" stays
\* in the line, and the parse goes on
TitleStep ==
    /\ InLoop
    /\ tune > 0
    /\ IsFieldLine(Line, HVSC_FIELD_TITLE)
    /\ EndsWithParenthetical(Line)
    /\ scan' = "line"
    /\ pc' = "loop"

\* the field the step has added to the working block
NewField == block'.fields[Len(block'.fields)]

---------------------------------------------------------------------------
(* C11: when the parenthetical that ends a TITLE: line is (H:MM), the      *)
(* timestamp of the title field has from = H*60+MM and no to (-1); when it *)
(* is (H:MM-H:MM), from and to are the two values in seconds.  (Stated for *)
(* the runs in which the search for "(" meets none beyond the line's end.) *)

C11_TitleTimestampValue ==
    [][ ( /\ TitleStep
          /\ IsHMM(Parenthetical(Line)) \/ IsRange(Parenthetical(Line)) )
        => ( /\ Len(block'.fields) = Len(block.fields) + 1
             /\ NewField.timestamp = TextTimestamp(Parenthetical(Line)) ) ]_vars

---------------------------------------------------------------------------
(* C12: a TITLE: line whose parenthetical is no timestamp, such as         *)
(* "(lyrics)", never makes the parse fail: unless an allocation fails the  *)
(* title field is created and the parse goes on with the next line, and    *)
(* the parse fails on no line without an allocation failure.               *)

C12_InvalidTimestampIgnored ==
    [][ /\ ( /\ InLoop
             /\ IsFieldLine(Line, HVSC_FIELD_TITLE)
             /\ EndsWithParenthetical(Line)
             /\ ~IsHMM(Parenthetical(Line))
             /\ ~IsRange(Parenthetical(Line))
             /\ "oom" \notin fault' )
           => ( /\ pc' = "loop"
                /\ lineno' = lineno + 1
                /\ tune > 0 =>
                    /\ Len(block'.fields) = Len(block.fields) + 1
                    /\ NewField.type = HVSC_FIELD_TITLE )
        /\ pc' = "failed" => "oom" \in fault' ]_vars

C12_Witness ==
    /\ pc = "done"
    /\ Len(entry_buffer) = 2
    /\ entry_buffer[1] = Marker(2)
    /\ entry_buffer[2] = TitleLine(<<"t", " ", "(", "x", ")">>)
    /\ fault = {}
    /\ Len(blocks) = 2
    /\ blocks[2].fields =
        << [type |-> HVSC_FIELD_TITLE, text |-> <<"t", " ", "(", "x", ")">>,
            timestamp |-> NoTimestamp] >>

---------------------------------------------------------------------------
(* C13: when the parenthetical that ends a TITLE: line does not parse as a *)
(* timestamp, also when its first half is a valid H:MM and the part after  *)
(* "-" is malformed, as in "(1:30-xx)", the title field carries no         *)
(* timestamp: from and to are both unset.  (Stated for the runs in which   *)
(* the search for "(" meets none beyond the line's end.)                   *)

C13_NoTimestampOnFailure ==
    [][ ( /\ TitleStep
          /\ ~IsHMM(Parenthetical(Line))
          /\ ~IsRange(Parenthetical(Line)) )
        => ( /\ Len(block'.fields) = Len(block.fields) + 1
             /\ NewField.timestamp = NoTimestamp ) ]_vars

---------------------------------------------------------------------------
(* C14: every field stored in a block of the document has one of the types *)
(* artist, author, bug, comment, name, title; no field has the invalid     *)
(* type, whatever mix of marker, tagged and untagged lines the entry holds.*)

C14_FieldTypesValid ==
    \A i \in 1..Len(blocks) :
        \A f \in 1..Len(blocks[i].fields) :
            blocks[i].fields[f].type \in HVSC_FIELD_ARTIST..HVSC_FIELD_TITLE

---------------------------------------------------------------------------
(* C15: for a line that is neither a tune marker nor tagged, also one      *)
(* shorter than 9 characters, the parser reads nothing beyond the end of   *)
(* the line when it steps over the 9-character prefix and builds a field   *)
(* from the rest.                                                          *)

C15_UntaggedLineReadInBounds ==
    [][ ( /\ InLoop
          /\ ~IsMarker(Line)
          /\ ~IsTagged(Line) )
        => (oob' = oob) ]_vars

---------------------------------------------------------------------------
(* C16: no block or field object reachable from the block list of the      *)
(* document is the working block or one of its fields: finalizing appends  *)
(* a copy of its own (same tune number, same fields in the same order with *)
(* the same type, text and timestamp), and the working block is then       *)
(* released or replaced.                                                   *)

\* the addresses of the working block and its fields
WorkingObjects(m) ==
    IF m.block = 0 THEN {}
    ELSE {m.block} \cup { m.fields[i] : i \in 1..Len(m.fields) }

\* the addresses of the objects of block i of the document
DocumentObjects(m, i) ==
    {m.blocks[i].block} \cup
        { m.blocks[i].fields[f] : f \in 1..Len(m.blocks[i].fields) }

\* each object of the document is one object of its own, and none is an
\* object of the working block
Independent(m) ==
    /\ \A i \in 1..Len(m.blocks) :
        /\ DocumentObjects(m, i) \cap WorkingObjects(m) = {}
        /\ Cardinality(DocumentObjects(m, i)) = 1 + Len(m.blocks[i].fields)
        /\ \A j \in 1..Len(m.blocks) :
            i # j => DocumentObjects(m, i) \cap DocumentObjects(m, j) = {}

C16_DocumentOwnsCopies ==
    [][ /\ Independent(mem')
        /\ Len(blocks') = Len(blocks) + 1 =>
            /\ blocks'[Len(blocks')] = block
            /\ Len(mem'.blocks) = Len(blocks')
            /\ Len(mem'.blocks[Len(blocks')].fields) = Len(block.fields)
            /\ block' \in {NULL, [tune |-> tune', fields |-> <<>>]}
            /\ mem'.fields = <<>> ]_vars

C16_Witness ==
    /\ pc = "loop"
    /\ lineno = 3
    /\ entry_buffer[1] = Marker(1)
    /\ entry_buffer[3] = Marker(2)
    /\ Len(blocks) = 1
    /\ Len(blocks[1].fields) = 1
    /\ mem.block # 0
    /\ mem.blocks[1].block \notin WorkingObjects(mem)

---------------------------------------------------------------------------
(* C17: when an allocation fails during the parse the call returns failure *)
(* and the handle holds no partial document: no block added before the     *)
(* failure is left in the block list.                                      *)

C17_NoPartialDocument ==
    pc = "failed" => blocks = <<>>

---------------------------------------------------------------------------
(* C18: whenever hvsc_stil_open() returns false (the file cannot be        *)
(* opened, the path cannot be stripped, a read fails, the path is not in   *)
(* the file), everything the call has acquired (the line buffer, the file, *)
(* the copy of the path) is released when it returns.                      *)

C18_OpenFailureReleasesAll ==
    pc = "open_failed" => held = {}

---------------------------------------------------------------------------
(* What the file says, read off its lines alone                            *)

\* the path asked for, as it stands in the file
Key == <<"/", "a">>

KeyAbsent(file) == \A i \in 1..Len(file) : file[i] # Key

\* the place of the first line that is the path
KeyLine(file) ==
    CHOOSE i \in 1..Len(file) : file[i] = Key /\ \A j \in 1..(i - 1) : file[j] # Key

IsBlank(line) == \A i \in 1..Len(line) : line[i] = " "

\* the place of the line that ends the entry that starts after line k: the
\* first blank line after k, or one past the last line of the file
EntryEnd(file, k) ==
    CHOOSE e \in (k + 1)..(Len(file) + 1) :
        /\ e <= Len(file) => IsBlank(file[e])
        /\ \A j \in (k + 1)..(e - 1) : ~IsBlank(file[j])

\* the lines between line k and the line that ends the entry
EntryText(file, k) == [i \in 1..(EntryEnd(file, k) - k - 1) |-> file[k + i]]

---------------------------------------------------------------------------
(* C19: hvsc_stil_open() for a path that is no line of the file returns    *)
(* failure with the error code HVSC_ERR_NOT_FOUND, which is not the code   *)
(* an I/O error during the search leaves, and no document is built for the *)
(* handle.                                                                 *)

C19_NotFound ==
    (pc # "closed" /\ KeyAbsent(archive)) =>
        /\ pc = "open_failed"
        /\ fault = {} => hvsc_errno = HVSC_ERR_NOT_FOUND
        /\ "io" \in fault => hvsc_errno = HVSC_ERR_IO
        /\ HVSC_ERR_IO # HVSC_ERR_NOT_FOUND
        /\ entry_read = "none"
        /\ blocks = <<>>
        /\ block = NULL
        /\ sid_comment = NoComment
        /\ mem = NoMem

C19_Witness ==
    /\ pc = "open_failed"
    /\ Len(archive) = MaxArchive
    /\ KeyAbsent(archive)
    /\ fault = {}
    /\ hvsc_errno = HVSC_ERR_NOT_FOUND
    /\ stil = [open |-> FALSE, lineno |-> Len(archive)]

---------------------------------------------------------------------------
(* C20: hvsc_stil_read_entry() right after a successful open returns       *)
(* success both when it meets a blank line and when it meets the end of    *)
(* the file, and the entry buffer then holds, in the order of the file,    *)
(* exactly the lines between the line of the path and that line or end;    *)
(* no lines at all is a valid result.  It returns failure only after a     *)
(* read error or a failed allocation.                                      *)

C20_EntryBufferIsEntryText ==
    /\ entry_read = "true" =>
            entry_buffer = EntryText(archive, KeyLine(archive))
    /\ entry_read = "false" => fault # {}
    /\ (pc = "start" /\ fault = {}) => entry_read = "true"

\* an entry of two lines ended by a blank line
C20_Witness ==
    /\ pc = "start"
    /\ entry_read = "true"
    /\ Len(archive) = 4
    /\ archive[1] = Key
    /\ archive[4] = <<>>
    /\ Len(entry_buffer) = 2
    /\ entry_buffer[1] # entry_buffer[2]

---------------------------------------------------------------------------
(* C21: hvsc_stil_parse_entry() terminates for every finite entry buffer:  *)
(* every iteration of the main loop that goes on leaves the line index     *)
(* greater than it was, also an iteration that runs stil_parse_comment()   *)
(* and steps the index back by one, the index never passes the number of   *)
(* buffered lines, the main loop runs at most once per buffered line, and  *)
(* the call comes to its return.                                           *)

\* the number of iterations of the main loop so far
Iterations == Cardinality({ k \in 1..Len(visits) : visits[k].by = "loop" })

C21_ParseTerminates ==
    /\ [][ InLoop => ( /\ pc' = "loop" => lineno' > lineno
                       /\ lineno' <= Len(entry_buffer)
                       /\ Iterations' <= Len(entry_buffer) ) ]_vars
    /\ <>(pc \in {"done", "failed"})

\* a comment of two lines, then a line the main loop handles itself
C21_Witness ==
    /\ pc = "done"
    /\ Len(entry_buffer) = 3
    /\ IsFieldLine(entry_buffer[1], HVSC_FIELD_COMMENT)
    /\ StartsWithNineSpaces(entry_buffer[2])
    /\ IsFieldLine(entry_buffer[3], HVSC_FIELD_ARTIST)
    /\ lineno = 3
    /\ Iterations = 2

---------------------------------------------------------------------------
(* C22: hvsc_stil_close() called once after a successful open, read_entry  *)
(* and parse_entry releases every line of the entry buffer, the SID-wide   *)
(* comment, every block of the document and every field of each block, the *)
(* copy of the path and the file, each exactly once: nothing that was      *)
(* allocated is left, and nothing is released twice.                       *)

\* what the handle owns after a successful parse, read off the entry: the
\* file, the path, the buffer and its lines, the comment of an entry that
\* starts with a COMMENT: line, and every block or field object in use
Owned ==
    { Res("stil", 0), Res("psid_path", 0), Res("entry_buffer", 0) }
        \cup { Res("line", i) : i \in 1..Len(entry_buffer) }
        \cup ( IF Len(entry_buffer) > 0
                  /\ IsFieldLine(entry_buffer[1], HVSC_FIELD_COMMENT)
               THEN { Res("sid_comment", 0) } ELSE {} )
        \cup { Res("object", a) : a \in mem.live }

C22_CloseReleasesAllOnce ==
    [][ ( /\ pc = "done"
          /\ pc' = "end"
          /\ entry_read = "true"
          /\ fault = {} )
        => ( /\ released = <<>>
             /\ { released'[i] : i \in 1..Len(released') } = Owned
             /\ Len(released') = Cardinality(Owned)
             /\ mem.live = UNION { DocumentObjects(mem, i) : i \in 1..Len(mem.blocks) }
             /\ mem'.live = {}
             /\ held' = {}
             /\ ~stil'.open ) ]_vars

\* an entry with a SID-wide comment and two blocks, one with a field
C22_Witness ==
    /\ pc = "end"
    /\ fault = {}
    /\ entry_read = "true"
    /\ Len(entry_buffer) = 3
    /\ Len(released) = 10
    /\ \E i \in 1..Len(released) : released[i] = Res("sid_comment", 0)
    /\ Cardinality({ i \in 1..Len(released) : released[i].kind = "object" }) = 3
    /\ mem.live = {}

---------------------------------------------------------------------------
(* C23: within every block of the document the fields stand in the order   *)
(* of the lines that produced them, for any number of fields, also more    *)
(* than the 32 the fields array holds at first: growing the array keeps    *)
(* the fields added before in place and in order.  (Stated on type and     *)
(* number of each field; the text of a title is the subject of C10.)       *)

\* an entry of a marker and then lines that each produce one field
IsFieldsEntry(buf) ==
    /\ Len(buf) > 0
    /\ IsMarker(buf[1])
    /\ \A i \in 2..Len(buf) :
            IsTagged(buf[i]) /\ Len(buf[i]) > 10 /\ ~StartsWithNineSpaces(buf[i])

TypeOfLine(line) ==
    CHOOSE type \in HVSC_FIELD_ARTIST..HVSC_FIELD_TITLE : IsFieldLine(line, type)

\* the last two characters of a text
LastTwo(text) == <<text[Len(text) - 1], text[Len(text)]>>

\* the fields are those of lines 2 .. n+1 of the buffer, in that order
FieldsOfLines(fields, buf, n) ==
    /\ Len(fields) = n
    /\ \A k \in 1..n :
            /\ fields[k].type = TypeOfLine(buf[k + 1])
            /\ LastTwo(fields[k].text) = LastTwo(buf[k + 1])

C23_FieldsInSourceOrder ==
    IsFieldsEntry(entry_buffer) =>
        /\ (pc = "loop" /\ lineno > 0) =>
                FieldsOfLines(block.fields, entry_buffer, lineno - 1)
        /\ pc = "done" =>
                FieldsOfLines(blocks[Len(blocks)].fields, entry_buffer,
                              Len(entry_buffer) - 1)

\* a block with one field more than the array held at first
C23_Witness ==
    /\ pc = "done"
    /\ Len(blocks[Len(blocks)].fields) = HVSC_STIL_BLOCK_FIELDS_INIT + 1
    /\ blocks[Len(blocks)].fields[1].text = <<"0", "1">>
    /\ LastTwo(blocks[Len(blocks)].fields[33].text) = <<"3", "3">>

---------------------------------------------------------------------------
(* C24: hvsc_sldb_get_lengths() returns -1 on every error, both when the   *)
(* database has no entry for the file and when the list of lengths of the  *)
(* entry found does not parse, and returns a number of songs, 0 or more,   *)
(* only on success.  (Stated for the calls in which no file operation, no  *)
(* allocation and no call of libgcrypt fails.)                             *)

C24_ErrorReturnsMinusOne ==
    (sldb_call.called /\ sldb_call.error \in {"none", "not_found", "parse"}) =>
        /\ sldb_call.error # "none" => sldb_call.num = -1
        /\ sldb_call.num >= 0 => sldb_call.error = "none"

---------------------------------------------------------------------------
(* C25: hvsc_psid_open() accepts a file whose first four bytes are 'RSID'  *)
(* as well as one whose first four bytes are 'PSID': the test of the magic *)
(* passes for both and fails for any other four bytes.  (Stated for the    *)
(* calls that do not fail for another reason: reading, size, allocation.)  *)

\* the magics as the file formats define them
MagicPSID == <<80, 83, 73, 68>>

MagicRSID == <<82, 83, 73, 68>>

C25_RsidAccepted ==
    (psid_call.called /\ psid_call.error \in {"none", "magic"}) =>
        (psid_call.result <=> psid_data \in {MagicPSID, MagicRSID})

---------------------------------------------------------------------------
(* C26: when the first tune marker "(#N)" is met while the tune number is  *)
(* still 0, no block is appended to the document: the working block stays *)
(* the same object with the fields it has, and its tune number becomes N,  *)
(* for N = 1 as for N > 1.                                                 *)

C26_FirstMarkerRetagsBlock ==
    [][ ( /\ InLoop
          /\ tune = 0
          /\ IsMarker(Line)
          /\ pc' = "loop" )
        => ( /\ blocks' = blocks
             /\ mem'.block = mem.block
             /\ block'.fields = block.fields
             /\ block'.tune = MarkerNumber(Line)
             /\ tune' = MarkerNumber(Line) ) ]_vars

---------------------------------------------------------------------------
(* C27: a tune marker "(#N)" finalizes the working block and starts a new  *)
(* one only if N differs from the number of the tune the working block     *)
(* belongs to: a marker that repeats the current tune number leaves the    *)
(* blocks of the document and the working block as they are.  (Stated for  *)
(* markers met with a tune number above 0; the first marker is the subject *)
(* of C26.)                                                                *)

C27_RepeatedMarkerChangesNothing ==
    [][ ( /\ InLoop
          /\ tune > 0
          /\ IsMarker(Line)
          /\ MarkerNumber(Line) = tune
          /\ pc' = "loop" )
        => ( /\ blocks' = blocks
             /\ block' = block
             /\ mem'.block = mem.block
             /\ tune' = tune ) ]_vars

---------------------------------------------------------------------------
(* C28: for a TITLE: line that ends with ")" and whose field text begins   *)
(* with the "(" that opens the parenthetical, such as "(1:30)", the        *)
(* timestamp parser is run on the text between them and, when that is a    *)
(* timestamp, the title field carries it.  (Stated for the runs in which   *)
(* the search for "(" meets none beyond the line's end.)                   *)

\* the only "(" of the line is the first character of the field text
OpensFieldText(line) ==
    /\ Len(line) >= 10
    /\ line[10] = "("
    /\ \A j \in 11..Len(line) : line[j] # "("

C28_ParenthesisAtStartOfText ==
    [][ ( /\ TitleStep
          /\ OpensFieldText(Line)
          /\ IsHMM(Parenthetical(Line)) \/ IsRange(Parenthetical(Line)) )
        => ( /\ Len(block'.fields) = Len(block.fields) + 1
             /\ NewField.type = HVSC_FIELD_TITLE
             /\ NewField.timestamp.from = TextTimestamp(Parenthetical(Line)).from
             /\ NewField.timestamp.to = TextTimestamp(Parenthetical(Line)).to ) ]_vars

---------------------------------------------------------------------------
(* C29: for a TITLE: line that ends with ")" and whose field text holds no *)
(* "(", no timestamp is parsed from the field text: the title field        *)
(* carries no timestamp, also when the field text starts with something of *)
(* the form H:MM.  (Stated for the runs in which the search for "(" meets  *)
(* none beyond the line's end.)                                            *)

\* the field text ends with ")" and holds no "("
ClosesWithoutOpening(line) ==
    /\ HasPrefix(line)
    /\ Len(line) >= 10
    /\ line[Len(line)] = ")"
    /\ \A j \in 10..Len(line) : line[j] # "("

C29_NoParenthesisNoTimestamp ==
    [][ ( /\ InLoop
          /\ tune > 0
          /\ IsFieldLine(Line, HVSC_FIELD_TITLE)
          /\ ClosesWithoutOpening(Line)
          /\ scan' = "line"
          /\ pc' = "loop" )
        => ( /\ Len(block'.fields) = Len(block.fields) + 1
             /\ NewField.type = HVSC_FIELD_TITLE
             /\ NewField.timestamp = NoTimestamp ) ]_vars

---------------------------------------------------------------------------
(* C30: the parenthetical that ends a TITLE: line is taken as a timestamp  *)
(* only if the whole text in it is H:MM or H:MM-H:MM: when it starts with  *)
(* a valid H:MM and other text follows before the ")", as in "(1:30 live)",*)
(* the title field carries no timestamp.  (Stated for the runs in which    *)
(* the search for "(" meets none beyond the line's end.)                   *)

\* s is an H:MM followed by text that does not go on as a range
HasTextAfterTime(s) ==
    \E n \in 4..(Len(s) - 1) :
        /\ IsHMM(SubSeq(s, 1, n))
        /\ s[n + 1] # "-"
        /\ ~isdigit(s[n + 1])

C30_WholeParentheticalIsTimestamp ==
    [][ ( /\ TitleStep
          /\ HasTextAfterTime(Parenthetical(Line)) )
        => ( /\ Len(block'.fields) = Len(block.fields) + 1
             /\ NewField.timestamp.from = -1
             /\ NewField.timestamp.to = -1 ) ]_vars

---------------------------------------------------------------------------
(* C31: a line of the form "(#<decimal integer>)", with or without white   *)
(* space in front, is handled as a tune marker and produces no field in    *)
(* any block: the number of fields of the document and of the working      *)
(* block together is the same after the line as before it.  This includes  *)
(* the line "(#0)".                                                        *)

\* the line is white space, "(#", one or more digits, ")"
IsTuneMarkerLine(line) ==
    LET a == Skip(line, SpaceRun(line))
    IN  /\ Len(a) >= 4
        /\ a[1] = "(" /\ a[2] = "#"
        /\ DigitRun(Skip(a, 2)) = Len(a) - 3
        /\ a[Len(a)] = ")"

RECURSIVE FieldCount(_)
FieldCount(bs) ==
    IF bs = <<>> THEN 0 ELSE Len(Head(bs).fields) + FieldCount(Tail(bs))

C31_MarkerLineIsNoField ==
    [][ ( /\ InLoop
          /\ IsTuneMarkerLine(Line)
          /\ pc' = "loop" )
        => ( FieldCount(blocks') + Len(block'.fields)
                = FieldCount(blocks) + Len(block.fields) ) ]_vars

---------------------------------------------------------------------------
(* C32: after every line the parser has handled, a tune number above 0 is  *)
(* the tune number of the working block, so a field is stored in a block   *)
(* of the tune the parser is in and never in a block of tune 0.            *)

C32_TuneIsBlockTune ==
    (pc = "loop" /\ tune > 0) => block.tune = tune

---------------------------------------------------------------------------
(* C33: the tune number of the parser is 0 only until the first line of    *)
(* the entry has been handled and never again: every line the main loop    *)
(* handles leaves it above 0, so the rule for tune 0, which stores no      *)
(* field for the line, is applied to the first line of the entry only, at  *)
(* most once per entry.                                                    *)

\* the line is no marker and the main loop goes on without a new field
\* in the working block
LineDropped ==
    /\ InLoop
    /\ stil_parse_tune_number(Line) <= 0
    /\ pc' = "loop"
    /\ block'.fields = block.fields

C33_TuneZeroOnlyAtFirstLine ==
    [][ /\ (InLoop /\ tune = 0) => lineno = 0
        /\ (InLoop /\ pc' = "loop") => tune' > 0
        /\ LineDropped => (tune = 0 /\ lineno = 0) ]_vars

C33_Witness ==
    /\ pc = "done"
    /\ Len(entry_buffer) = 3
    /\ entry_buffer[1] = <<"(", "#", "0", ")">>
    /\ entry_buffer[2] = Ident(HVSC_FIELD_ARTIST) \o <<" ", "a">>
    /\ entry_buffer[3] = <<"(", "#", "0", ")">>
    /\ tune = 1
    /\ Len(blocks) = 1
    /\ Len(blocks[1].fields) = 2

---------------------------------------------------------------------------
(* C34: while the parser searches backward for "(" on a TITLE: line that   *)
(* ends with ")", every character it reads is a character of that line:    *)
(* the search starts at the last character of the line and reads nothing   *)
(* beyond the line's end.                                                  *)

C34_TitleScanInBounds ==
    [][ ( /\ InLoop
          /\ IsFieldLine(Line, HVSC_FIELD_TITLE)
          /\ Line[Len(Line)] = ")"
          /\ pc' = "loop" )
        => (oob' = oob) ]_vars

---------------------------------------------------------------------------
(* C35: in every field of the document and of the working block, "to" is   *)
(* set only if "from" is set, and a field of another kind than title has   *)
(* no timestamp (from and to are both -1), also when a TITLE: line before  *)
(* it in the same entry carried one.                                       *)

TimestampWellFormed(field) ==
    /\ field.timestamp.to >= 0 => field.timestamp.from >= 0
    /\ field.type # HVSC_FIELD_TITLE =>
            (field.timestamp.from = -1 /\ field.timestamp.to = -1)

C35_TimestampsOnlyOnTitles ==
    /\ \A i \in 1..Len(blocks) :
            \A f \in 1..Len(blocks[i].fields) :
                TimestampWellFormed(blocks[i].fields[f])
    /\ \A f \in 1..Len(block.fields) : TimestampWellFormed(block.fields[f])

C35_Witness ==
    /\ pc = "done"
    /\ scan = "line"
    /\ Len(blocks) = 1
    /\ Len(blocks[1].fields) = 2
    /\ blocks[1].fields[1].type = HVSC_FIELD_TITLE
    /\ blocks[1].fields[1].timestamp = [from |-> 30, to |-> 135]
    /\ blocks[1].fields[2].type = HVSC_FIELD_ARTIST
    /\ blocks[1].fields[2].timestamp = [from |-> -1, to |-> -1]

---------------------------------------------------------------------------
(* C36: in any sequence of calls on one handle hvsc_stil_close() releases  *)
(* each resource at most once: a second call, or a call after an           *)
(* hvsc_stil_open() that returned false and has closed the handle itself,  *)
(* releases nothing that was released before.                              *)

C36_ReleasedAtMostOnce ==
    \A i, j \in 1..Len(released) : i # j => released[i] # released[j]

---------------------------------------------------------------------------
(* C37: a successful hvsc_stil_parse_entry() leaves at least one block in  *)
(* the document: when the end of the entry buffer is reached the working   *)
(* block is added as the last block.  For an empty entry buffer the        *)
(* document is one block with tune number 0 and no fields, and there is no *)
(* SID-wide comment.                                                       *)

C37_LastBlockFinalized ==
    [][ (pc = "loop" /\ pc' = "done")
        => ( /\ Len(blocks') = Len(blocks) + 1
             /\ Len(blocks') >= 1
             /\ blocks'[Len(blocks')].tune = block.tune
             /\ blocks'[Len(blocks')].fields = block.fields
             /\ entry_buffer = <<>> =>
                    ( /\ Len(blocks') = 1
                      /\ blocks'[1].tune = 0
                      /\ blocks'[1].fields = <<>>
                      /\ sid_comment'.null ) ) ]_vars

C37_Witness ==
    /\ pc = "done"
    /\ entry_buffer = <<>>
    /\ Len(blocks) = 1
    /\ blocks[1].tune = 0
    /\ sid_comment.null

---------------------------------------------------------------------------
(* C38: whenever hvsc_stil_parse_entry() returns, with true or with false, *)
(* the working block of the parser has been released: no object of the     *)
(* working block is still allocated.                                       *)

C38_WorkingBlockReleased ==
    pc \in {"done", "failed"} => WorkingObjects(mem) \cap mem.live = {}

---------------------------------------------------------------------------
(* C39: create_md5_hash() returns false whenever the digest cannot be      *)
(* computed, also when the digest context cannot be opened, so the song    *)
(* length database is never searched with a digest buffer that was not     *)
(* filled in: a call in which gcry_md_open() fails returns -1 and no       *)
(* lengths, whatever the buffer holds.                                     *)

C39_NoSearchWithoutDigest ==
    (sldb_call.called /\ sldb_call.error = "gcrypt")
        => (sldb_call.num = -1 /\ sldb_call.null)

=============================================================================
